---- MODULE Spec2Model ----
(***************************************************************************)
(* R-Farm: the Blender add-on's asynchronous remote-render job tracker     *)
(* (src/blender_addon/__init__.py) and the Cloud Run render worker         *)
(* (src/cloud_run/app.py).                                                   *)
(*                                                                         *)
(* Spec         : the add-on. Operators, timers and popups run on          *)
(*                Blender's main thread (one handler = one action); every  *)
(*                worker thread advances one blocking call / one queue.put *)
(*                at a time, interleaved with the main thread.              *)
(* SpecTeardown : the add-on with scenes deleted and the add-on disabled   *)
(*                while jobs run.                                           *)
(* SpecRunner   : one worker against every answer of the network and the   *)
(*                file system.                                              *)
(* SpecServer   : the FastAPI application; handlers are `async def`        *)
(*                without an await, so each request is one action.          *)
(* SpecGrant    : /upload-url and /upload under every configuration of     *)
(*                the bucket, between renders.                              *)
(* SpecShutdown : the add-on disabled while timer and popup both poll.     *)
(* SpecLive     : the add-on under fairness of threads and timers.         *)
(* SpecEdit     : the operator edits the scene while a job runs.           *)
(* SpecOwners   : two scenes render at the same time.                      *)
(***************************************************************************)
EXTENDS Integers, Sequences, FiniteSets, TLC

\* Bounds: the number of submissions that get as far as creating a temporary
\* directory (tempfile.mkdtemp) during one run of the model; MaxRuns is the
\* same bound where every answer of the network is enumerated (SpecRunner).
MaxJobs == 2

MaxRuns == 1

\* The number of lines of diagnostic text Blender prints before, and after,
\* the line render_worker.py prints.
MaxNoise == 2

\* The scenes of the .blend session; scene.as_pointer() is the owner key.
Scenes == {"scene_a", "scene_b"}

\* render.frame_path() of each scene made absolute: "" when the scene has no
\* output path configured (_resolve_output_path then returns None).
SceneFramePath == [s \in Scenes |-> IF s = "scene_a" THEN "/renders/0001.png" ELSE ""]

\* scene.frame_current of each scene when the session starts.
SceneFrame == [s \in Scenes |-> IF s = "scene_a" THEN 1 ELSE 7]

\* scene.cycles.samples when the session starts.
DefaultSamples == 128

\* what the operator can make of a scene between two events: the current
\* frame, the sample count, the Cycles device
SceneEdits ==
    [frame_current : {1, 2}, samples : {DefaultSamples, 64}, device : {"CPU", "GPU"}]

\* The bytes save_as_mainfile leaves at <tmpdir>/scene.blend: opaque to the
\* add-on, which never looks at them before the worker reads the file.
BlendFiles == {<< >>, <<66, 76>>}

(***************************************************************************)
(* Python values.  Optional[x] is << >> for None and <<x>> otherwise; a    *)
(* dict is a record and d.get(k, default) is Get.                           *)
(***************************************************************************)
None == << >>

Some(x) == <<x>>

Get(d, k, default) == IF k \in DOMAIN d THEN d[k] ELSE default

\* Python truthiness of an Optional[str]: None and "" are both falsy.
TruthyStr(opt) == opt # None /\ opt[1] # ""

\* Python truthiness of an Optional base64 text (a sequence of symbols): None
\* and the empty text are both falsy.
TruthyText(opt) == opt # None /\ opt[1] # << >>

(***************************************************************************)
(* base64.b64encode: 3 bytes -> 4 six-bit symbols 0..63, 64 is the '='     *)
(* padding symbol.                                                          *)
(***************************************************************************)
B64Pad == 64

RECURSIVE b64encode(_)
b64encode(bytes) ==
    IF bytes = << >> THEN << >>
    ELSE LET n  == Len(bytes)
             b1 == bytes[1]
             b2 == IF n >= 2 THEN bytes[2] ELSE 0
             b3 == IF n >= 3 THEN bytes[3] ELSE 0
             s1 == b1 \div 4
             s2 == (b1 % 4) * 16 + (b2 \div 16)
             s3 == IF n >= 2 THEN (b2 % 16) * 4 + (b3 \div 64) ELSE B64Pad
             s4 == IF n >= 3 THEN b3 % 64 ELSE B64Pad
         IN  <<s1, s2, s3, s4>> \o
             (IF n > 3 THEN b64encode(SubSeq(bytes, 4, n)) ELSE << >>)

(***************************************************************************)
(* State                                                                    *)
(***************************************************************************)
VARIABLES
    registered,          \* register() has run and unregister() has not
    requests,            \* module-level `requests`: TRUE when the import worked
    sceneExists,         \* bpy.data.scenes, by owner key
    sceneProps,          \* what _prepare_base_payload reads of each scene
    status,              \* scene.rfarm_status (RFarmStatus), by owner key
    ACTIVE_RENDER_JOBS,  \* owner key -> None | <<[job, done]>>
    jobs,                \* one record per temporary directory / worker thread
    timers,              \* job ids whose timer_callback is in bpy.app.timers
    popupOpen,           \* a render_status_popup modal operator is running
    report,              \* the last self.report() of RFarm_OT_render_frame
    _storage_client,     \* app.py module global: None | <<"storage.Client">>
    _service_account_email, \* app.py module global: None | <<email>>
    GCS_BUCKET,          \* app.py module constant, os.environ at import
    served               \* the last request the application handled, with
                         \* what the handler did: None before the first

clientVars == <<registered, requests, sceneExists, sceneProps, status, ACTIVE_RENDER_JOBS,
                jobs, timers, popupOpen, report>>

serverVars == <<_storage_client, _service_account_email, GCS_BUCKET, served>>

vars == <<clientVars, serverVars>>

JobIds == 1..Len(jobs)

\* time.time() at submission; a worker's k-th event carries SubmitTime + k.
SubmitTime == 1

DefaultStatus ==
    [last_job_id |-> "", last_output_path |-> "", is_rendering |-> FALSE,
     last_error |-> "", log_entries |-> << >>, log_index |-> 0,
     start_timestamp |-> 0, finish_timestamp |-> 0]

Max(a, b) == IF a >= b THEN a ELSE b

\* _append_log_entry
_append_log_entry(st, message, timestamp) ==
    LET entries == Append(st.log_entries, [timestamp |-> timestamp, message |-> message])
    IN  [st EXCEPT !.log_entries = entries,
                   !.log_index = Max(0, Len(entries) - 1)]

\* RFARM_GCS_BUCKET in the environment of the service: unset, empty, set
Buckets == {None, Some(""), Some("rfarm-blends")}

\* app.py once imported, lines 29-33
InitApp(buckets) ==
    /\ _storage_client = None
    /\ _service_account_email = None
    /\ GCS_BUCKET \in buckets
    /\ served = None

InitAddon ==
    /\ registered = TRUE
    /\ requests \in BOOLEAN
    /\ sceneExists = [s \in Scenes |-> TRUE]
    /\ sceneProps = [s \in Scenes |-> [frame_current |-> SceneFrame[s],
                                        samples |-> DefaultSamples,
                                        device |-> "CPU"]]
    /\ status = [s \in Scenes |-> DefaultStatus]
    /\ ACTIVE_RENDER_JOBS = [s \in Scenes |-> None]
    /\ jobs = << >>
    /\ timers = {}
    /\ popupOpen = FALSE
    /\ report = ""

\* the add-on registered; the service is not looked at
Init == InitAddon /\ InitApp({None})

\* the service deployed with any configuration of the bucket
InitServer == InitAddon /\ requests /\ InitApp(Buckets)

(***************************************************************************)
(* RFarm_OT_render_frame.execute, run with context.scene = s.               *)
(* Inputs: prefs.endpoint, scene.render.engine, the outcome of              *)
(* save_as_mainfile (the bytes written, or a RuntimeError) and whether the  *)
(* status popup could be invoked.                                           *)
(***************************************************************************)
Endpoints == {"", "https://rfarm.example"}

Engines == {"CYCLES", "BLENDER_EEVEE"}

MsgAlreadyRunning == "A remote render is already running."

MsgNoRequests ==
    "Python module 'requests' is required. Install it in Blender's Python environment."

\* _collect_render_metadata(scene): of the eleven values it copies, the one
\* the operator edits here
_collect_render_metadata(s) == [samples |-> sceneProps[s].samples]

\* _prepare_base_payload(scene); the Cycles preferences say OPTIX
_prepare_base_payload(s) ==
    [frame |-> sceneProps[s].frame_current,
     render_settings |-> _collect_render_metadata(s),
     device |-> sceneProps[s].device,
     compute_device_type |-> IF sceneProps[s].device = "GPU" THEN "OPTIX" ELSE "CUDA"]

\* The job_args dict handed to the worker thread, with the thread's own
\* locals (pc and the values it holds between two blocking calls) and its
\* history: grant_response and upload_response are the answers its two
\* negotiation calls got, sent is every event it put, posts counts its POSTs
\* to /render, rmtree_calls the removals of its directory.
NewJob(s, endpoint, blend) ==
    [owner |-> s,
     queue |-> << >>,
     endpoint |-> endpoint,
     blend_file |-> blend,
     tmpdir |-> "exists",
     base_payload |-> _prepare_base_payload(s),
     output_path |-> SceneFramePath[s],
     requests_module |-> requests,
     thread |-> "running",
     pc |-> "start",
     upload_url |-> None,
     gcs_uri |-> None,
     blend_inline |-> None,
     payload |-> None,
     response |-> None,
     exc |-> None,
     grant_response |-> None,
     upload_response |-> None,
     put_count |-> 0,
     sent |-> << >>,
     posts |-> 0,
     rmtree_calls |-> 0]

\* lines 497-505: the directory is made, the export raises, the submitter
\* removes the directory; no thread is ever created for it.
ExportFailedJob(s, endpoint) ==
    [NewJob(s, endpoint, << >>) EXCEPT !.tmpdir = "deleted", !.thread = "none",
                                       !.pc = "export_failed", !.rmtree_calls = 1]

\* lines 477-479
ExecuteAlreadyRunning(s) ==
    /\ status[s].is_rendering
    /\ report' = MsgAlreadyRunning
    /\ UNCHANGED <<registered, requests, sceneExists, sceneProps, status, ACTIVE_RENDER_JOBS,
                   jobs, timers, popupOpen>>

\* lines 481-495: the three precondition checks, in the code's order
ExecutePrecondition(s, endpoint, engine) ==
    /\ ~status[s].is_rendering
    /\ \/ /\ ~requests
          /\ status' = [status EXCEPT ![s].last_error = MsgNoRequests]
          /\ report' = MsgNoRequests
       \/ /\ requests /\ endpoint = ""
          /\ status' = [status EXCEPT ![s].last_error = "Cloud Run endpoint not configured"]
          /\ report' = "Configure the Cloud Run endpoint in the add-on preferences."
       \/ /\ requests /\ endpoint # "" /\ engine # "CYCLES"
          /\ status' = [status EXCEPT ![s].last_error = "Render engine must be Cycles"]
          /\ report' = "Switch the render engine to Cycles before submitting."
    /\ UNCHANGED <<registered, requests, sceneExists, sceneProps, ACTIVE_RENDER_JOBS, jobs,
                   timers, popupOpen>>

\* the checks of lines 477-495 all pass (and the model has a job left)
Accepts(s, endpoint, engine, max_jobs) ==
    /\ ~status[s].is_rendering
    /\ requests
    /\ endpoint # ""
    /\ engine = "CYCLES"
    /\ Len(jobs) < max_jobs

\* lines 497-505
ExecuteExportFails(s, endpoint, engine, max_jobs) ==
    /\ Accepts(s, endpoint, engine, max_jobs)
    /\ jobs' = Append(jobs, ExportFailedJob(s, endpoint))
    /\ status' = [status EXCEPT ![s].last_error = "Error: Cannot save file"]
    /\ report' = "Unable to export .blend: Error: Cannot save file"
    /\ UNCHANGED <<registered, requests, sceneExists, sceneProps, ACTIVE_RENDER_JOBS, timers,
                   popupOpen>>

\* SubmittedStatus without line 511
SubmittedStatus_FlagUnset(st) ==
    _append_log_entry(
        [st EXCEPT !.last_error = "", !.last_output_path = "",
                   !.last_job_id = "", !.start_timestamp = SubmitTime,
                   !.finish_timestamp = 0, !.log_entries = << >>, !.log_index = 0],
        "Remote render job initialised", SubmitTime)

\* SubmittedStatus without line 516
SubmittedStatus_KeepsFinish(st) ==
    _append_log_entry(
        [st EXCEPT !.is_rendering = TRUE, !.last_error = "", !.last_output_path = "",
                   !.last_job_id = "", !.start_timestamp = SubmitTime,
                   !.log_entries = << >>, !.log_index = 0],
        "Remote render job initialised", SubmitTime)

\* lines 511-519
SubmittedStatus(st) ==
    _append_log_entry(
        [st EXCEPT !.is_rendering = TRUE, !.last_error = "", !.last_output_path = "",
                   !.last_job_id = "", !.start_timestamp = SubmitTime,
                   !.finish_timestamp = 0, !.log_entries = << >>, !.log_index = 0],
        "Remote render job initialised", SubmitTime)

\* lines 497-553, the export having succeeded
ExecuteSubmit(s, endpoint, engine, blend, popup, max_jobs) ==
    /\ Accepts(s, endpoint, engine, max_jobs)
    /\ LET j == Len(jobs) + 1
       IN  /\ jobs' = Append(jobs, NewJob(s, endpoint, blend))
           /\ status' = [status EXCEPT ![s] = SubmittedStatus(@)]
           /\ ACTIVE_RENDER_JOBS' =
                  [ACTIVE_RENDER_JOBS EXCEPT ![s] = Some([job |-> j, done |-> FALSE])]
           /\ timers' = timers \cup {j}
    /\ popupOpen' = (popupOpen \/ popup)
    /\ report' = "Remote render job submitted to R-Farm"
    /\ UNCHANGED <<registered, requests, sceneExists, sceneProps>>

\* env: the sets the operator's inputs are drawn from
Execute(s, env) ==
    /\ registered
    /\ sceneExists[s]
    /\ \/ ExecuteAlreadyRunning(s)
       \/ \E endpoint \in env.endpoints, engine \in env.engines :
             \/ ExecutePrecondition(s, endpoint, engine)
             \/ /\ env.export_can_fail
                /\ ExecuteExportFails(s, endpoint, engine, env.max_jobs)
             \/ \E blend \in env.blend_files, popup \in env.popup :
                   ExecuteSubmit(s, endpoint, engine, blend, popup, env.max_jobs)

(***************************************************************************)
(* The HTTP exchanges of the worker.  A response is a record               *)
(* [status_code, text, json] where json is None when response.json()       *)
(* raises ValueError; a call that raises (connection error, timeout) is    *)
(* the record [exception |-> message].                                      *)
(***************************************************************************)
Raised(r) == "exception" \in DOMAIN r

ConnectionError == [exception |-> "ConnectionError: connection refused"]

Grant == [upload_url |-> "https://storage.example/signed", gcs_uri |-> "gs://bucket/uploads/u/scene.blend"]

GrantOk == [status_code |-> 200, text |-> "{..}", json |-> Some(Grant)]

GrantNotFound == [status_code |-> 404, text |-> "Not Found", json |-> None]

\* what POST <endpoint>/upload-url can answer
GrantResponses ==
    {GrantNotFound,
     [status_code |-> 403, text |-> "Forbidden", json |-> None],
     [status_code |-> 200, text |-> "<html>", json |-> None],
     [status_code |-> 200, text |-> "{}", json |-> Some([blob_name |-> "uploads/u/scene.blend"])],
     GrantOk,
     [status_code |-> 302, text |-> "{..}", json |-> Some(Grant)],
     ConnectionError}

\* what PUT <upload_url> can answer
UploadResponses ==
    {[status_code |-> 200, text |-> ""],
     [status_code |-> 201, text |-> ""],
     [status_code |-> 204, text |-> ""],
     [status_code |-> 500, text |-> "Internal Server Error"],
     ConnectionError}

RenderOk ==
    [status_code |-> 200, text |-> "{..}",
     json |-> Some([job_id |-> "uuid-1", image_base64 |-> b64encode(<<137, 80, 78>>),
                    output_format |-> "PNG"])]

RenderFailed == [status_code |-> 500, text |-> "Blender failed", json |-> None]

\* what POST <endpoint>/render can answer
RenderResponses ==
    {RenderOk,
     [status_code |-> 200, text |-> "{..}",
      json |-> Some([image_base64 |-> b64encode(<<137, 80, 78>>)])],
     [status_code |-> 200, text |-> "{}", json |-> Some([job_id |-> "uuid-1"])],
     [status_code |-> 200, text |-> "<html>", json |-> None],
     RenderFailed,
     ConnectionError}

\* _request_upload_url, from the response of its requests.post on: what it
\* returns or raises
_request_upload_url(response) ==
    IF Raised(response) THEN [raises |-> "Exception", message |-> response.exception]
    ELSE IF response.status_code = 404
    THEN [raises |-> "UploadURLNotSupported",
          message |-> "Remote worker does not expose /upload-url (legacy deployment)"]
    ELSE IF response.status_code >= 400
    THEN [raises |-> "RuntimeError",
          message |-> "Failed to request upload URL: HTTP "
                      \o ToString(response.status_code) \o " " \o response.text]
    ELSE IF response.json = None
    THEN [raises |-> "RuntimeError", message |-> "Upload URL response was not valid JSON"]
    ELSE LET payload == response.json[1]
             upload_url == Get(payload, "upload_url", "")
             gcs_uri == Get(payload, "gcs_uri", "")
         IN  IF upload_url = "" \/ gcs_uri = ""
             THEN [raises |-> "RuntimeError",
                   message |-> "Upload URL response missing required fields"]
             ELSE [raises |-> "", upload_url |-> upload_url, gcs_uri |-> gcs_uri]

\* line 269: the statuses of the PUT that do not raise
UploadAccepted(status_code) == status_code \in {200, 201}

\* _upload_blend_to_gcs, from the response of its requests.put on
_upload_blend_to_gcs(response) ==
    IF Raised(response) THEN [raises |-> "Exception", message |-> response.exception]
    ELSE IF ~UploadAccepted(response.status_code)
    THEN [raises |-> "RuntimeError",
          message |-> "Upload to Cloud Storage failed: HTTP "
                      \o ToString(response.status_code) \o " " \o response.text]
    ELSE [raises |-> ""]

\* _build_payload
_build_payload(base_payload, blend_gcs_uri, blend_inline) ==
    [base |-> base_payload,
     blend_gcs_uri |-> IF TruthyStr(blend_gcs_uri) THEN blend_gcs_uri ELSE None,
     blend_file |-> IF TruthyText(blend_inline) THEN blend_inline ELSE None]

\* a key of the request body is present
HasKey(payload, k) == payload[k] # None

(***************************************************************************)
(* _run_remote_render_job: the worker thread of job j, one step per        *)
(* blocking call, each step ending with at most one queue.put.              *)
(***************************************************************************)
\* job_queue.put((kind, time.time(), payload))
Put(job, kind, payload) ==
    LET event == <<kind, SubmitTime + job.put_count + 1, payload>>
    IN  [job EXCEPT !.queue = Append(@, event),
                    !.sent = Append(@, event),
                    !.put_count = @ + 1]

\* the nested log() helper, line 301
log(job, message) == Put(job, "log", message)

\* Raise with no clause catching the exception: only the `finally` runs
Raise_Escapes(job, message) == [job EXCEPT !.exc = Some(message), !.pc = "finally"]

\* an exception reaching the `except Exception` clause of line 379
Raise(job, message) == [job EXCEPT !.exc = Some(message), !.pc = "except"]

At(job, pc) == [job EXCEPT !.pc = pc]

WorkerStep(j, next) ==
    /\ jobs' = [jobs EXCEPT ![j] = next]
    /\ UNCHANGED <<registered, requests, sceneExists, sceneProps, status, ACTIVE_RENDER_JOBS,
                   timers, popupOpen, report>>

MsgFallback == "Service does not support upload URLs, embedding .blend file in request"

MsgUploaded == "Blend file uploaded successfully"

\* lines 305-310
WorkerStart(j) ==
    /\ jobs[j].pc = "start"
    /\ WorkerStep(j, IF ~jobs[j].requests_module
                     THEN Raise(jobs[j], MsgNoRequests)
                     ELSE At(log(jobs[j], "Requesting upload URL from R-Farm service"), "grant"))

\* lines 315-316 and 319-320
WorkerGrant(j, response) ==
    /\ jobs[j].pc = "grant"
    /\ LET r == _request_upload_url(response)
           job == [jobs[j] EXCEPT !.grant_response = Some(response)]
       IN  WorkerStep(j,
             IF r.raises = ""
             THEN At(log([job EXCEPT !.upload_url = Some(r.upload_url),
                                     !.gcs_uri = Some(r.gcs_uri)],
                         "Upload URL received, uploading .blend file"), "upload")
             ELSE IF r.raises = "UploadURLNotSupported"
             THEN At(log(job, MsgFallback), "read")
             ELSE Raise(job, r.message))

\* lines 317-318
WorkerUpload(j, response) ==
    /\ jobs[j].pc = "upload"
    /\ LET r == _upload_blend_to_gcs(response)
           job == [jobs[j] EXCEPT !.upload_response = Some(response)]
       IN  WorkerStep(j,
             IF r.raises = ""
             THEN At(log(job, MsgUploaded), "build")
             ELSE Raise(job, r.message))

\* lines 321-322: read the payload file and encode it
WorkerRead(j, readable) ==
    /\ jobs[j].pc = "read"
    /\ WorkerStep(j,
          IF readable
          THEN At([jobs[j] EXCEPT !.blend_inline = Some(b64encode(jobs[j].blend_file))], "build")
          ELSE Raise(jobs[j], "[Errno 5] Input/output error: scene.blend"))

\* the worker taking frame, settings and device from the scene when it
\* builds the request
WorkerBuild_ReadsScene(j) ==
    /\ jobs[j].pc = "build"
    /\ WorkerStep(j,
          At(log([jobs[j] EXCEPT !.payload =
                     Some(_build_payload(_prepare_base_payload(jobs[j].owner),
                                         jobs[j].gcs_uri, jobs[j].blend_inline))],
                 "Submitting render request to R-Farm service"), "post"))

\* lines 324-331
WorkerBuild(j) ==
    /\ jobs[j].pc = "build"
    /\ WorkerStep(j,
          At(log([jobs[j] EXCEPT !.payload =
                     Some(_build_payload(jobs[j].base_payload, jobs[j].gcs_uri,
                                         jobs[j].blend_inline))],
                 "Submitting render request to R-Farm service"), "post"))

\* lines 332-333
WorkerPost(j, response) ==
    /\ jobs[j].pc = "post"
    /\ LET sent == [jobs[j] EXCEPT !.posts = @ + 1]
       IN  WorkerStep(j,
             IF Raised(response)
             THEN Raise(sent, response.exception)
             ELSE At(log([sent EXCEPT !.response = Some(response)],
                         "Service responded with HTTP " \o ToString(response.status_code)),
                     "response"))

\* str.lower() of the output formats the service reports
Lower(format) == IF format = "PNG" THEN "png" ELSE IF format = "JPEG" THEN "jpeg" ELSE format

\* lines 353-363: where the image is written
FinalPath(output_path_str, remote_format) ==
    IF output_path_str # "" THEN output_path_str
    ELSE "/tmp/blender/rfarm_frame." \o Lower(remote_format)

\* lines 335-366; the message of line 366 is shortened to the path written
WorkerResponse(j, writable) ==
    /\ jobs[j].pc = "response"
    /\ LET response == jobs[j].response[1]
       IN  WorkerStep(j,
             IF response.status_code >= 400
             THEN Raise(jobs[j], "HTTP " \o ToString(response.status_code) \o ": " \o response.text)
             ELSE IF response.json = None
             THEN Raise(jobs[j], "Invalid JSON response")
             ELSE IF Get(response.json[1], "image_base64", << >>) = << >>
             THEN Raise(jobs[j], "Response missing image data")
             ELSE IF ~writable
             THEN Raise(jobs[j], "[Errno 13] Permission denied")
             ELSE At(log(jobs[j],
                         "Result saved to "
                         \o FinalPath(jobs[j].output_path,
                                      Get(response.json[1], "output_format", "PNG"))),
                     "result"))

\* the success path logging once more after its result
WorkerResult_LogAfter(j) ==
    /\ jobs[j].pc = "result"
    /\ WorkerStep(j,
          At(log(Put(jobs[j], "result",
                     [status |-> "success", job_id |-> "",
                      output_path |-> jobs[j].output_path]),
                 "Render finished"),
             "finally"))

\* lines 368-378
WorkerResult(j) ==
    /\ jobs[j].pc = "result"
    /\ LET payload_response == jobs[j].response[1].json[1]
       IN  WorkerStep(j,
             At(Put(jobs[j], "result",
                    [status |-> "success",
                     job_id |-> Get(payload_response, "job_id", ""),
                     output_path |-> FinalPath(jobs[j].output_path,
                                               Get(payload_response, "output_format", "PNG"))]),
                "finally"))

\* line 380
WorkerExcept(j) ==
    /\ jobs[j].pc = "except"
    /\ WorkerStep(j, At(log(jobs[j], "Error: " \o jobs[j].exc[1]), "except_result"))

\* the `except` clause logging the failure and putting no result
WorkerExceptResult_NoResult(j) ==
    /\ jobs[j].pc = "except_result"
    /\ WorkerStep(j, At(jobs[j], "finally"))

\* lines 381-390
WorkerExceptResult(j) ==
    /\ jobs[j].pc = "except_result"
    /\ WorkerStep(j, At(Put(jobs[j], "result", [status |-> "error", error |-> jobs[j].exc[1]]),
                        "finally"))

\* Cleanup with the rmtree at the end of the `try` body instead of in a
\* `finally`: a failed job keeps its directory
Cleanup_OnSuccessOnly(job) ==
    [job EXCEPT !.tmpdir = IF job.exc = None THEN "deleted" ELSE @,
                !.rmtree_calls = IF job.exc = None THEN @ + 1 ELSE @,
                !.pc = "done", !.thread = "finished",
                !.upload_url = None, !.gcs_uri = None, !.blend_inline = None,
                !.payload = None, !.response = None, !.exc = None,
                !.grant_response = None, !.upload_response = None]

\* the `finally` clause, lines 391-392; the thread then ends
Cleanup(job) ==
    [job EXCEPT !.tmpdir = "deleted", !.rmtree_calls = @ + 1, !.pc = "done",
                !.thread = "finished",
                \* the thread's locals die with it
                !.upload_url = None, !.gcs_uri = None, !.blend_inline = None,
                !.payload = None, !.response = None, !.exc = None,
                !.grant_response = None, !.upload_response = None]

WorkerFinally(j) ==
    /\ jobs[j].pc = "finally"
    /\ WorkerStep(j, Cleanup(jobs[j]))

\* env: the answers the network and the file system can give
Worker(j, env) ==
    \/ WorkerStart(j)
    \/ \E response \in env.grant : WorkerGrant(j, response)
    \/ \E response \in env.upload : WorkerUpload(j, response)
    \/ \E readable \in env.readable : WorkerRead(j, readable)
    \/ WorkerBuild(j)
    \/ \E response \in env.render : WorkerPost(j, response)
    \/ \E writable \in env.writable : WorkerResponse(j, writable)
    \/ WorkerResult(j)
    \/ WorkerExcept(j)
    \/ WorkerExceptResult(j)
    \/ WorkerFinally(j)

(***************************************************************************)
(* The main thread: the poller, the timer callback, the status popup.      *)
(***************************************************************************)
\* ApplyEvent with line 424 only on the success branch
ApplyEvent_ErrorKeepsFlag(st, done, event) ==
    IF event[1] = "log"
    THEN [status |-> _append_log_entry(st, event[3], event[2]), done |-> done]
    ELSE [status |->
            IF Get(event[3], "status", "") = "success"
            THEN [st EXCEPT !.finish_timestamp = event[2],
                            !.last_error = "",
                            !.last_job_id = Get(event[3], "job_id", ""),
                            !.last_output_path = Get(event[3], "output_path", ""),
                            !.is_rendering = FALSE]
            ELSE [st EXCEPT !.last_job_id = "",
                            !.last_output_path = "",
                            !.last_error = Get(event[3], "error", "Unknown error")],
          done |-> TRUE]

\* lines 411-426: one event taken from the queue, applied to the status and
\* to job_info["done"]
ApplyEvent(st, done, event) ==
    LET kind == event[1]
        timestamp == event[2]
        payload == event[3]
    IN  IF kind = "log"
        THEN [status |-> _append_log_entry(st, payload, timestamp), done |-> done]
        ELSE IF kind = "result"
        THEN [status |->
                IF Get(payload, "status", "") = "success"
                THEN [st EXCEPT !.finish_timestamp = timestamp,
                                !.last_error = "",
                                !.last_job_id = Get(payload, "job_id", ""),
                                !.last_output_path = Get(payload, "output_path", ""),
                                !.is_rendering = FALSE]
                ELSE [st EXCEPT !.finish_timestamp = timestamp,
                                !.last_job_id = "",
                                !.last_output_path = "",
                                !.last_error = Get(payload, "error", "Unknown error"),
                                !.is_rendering = FALSE],
              done |-> TRUE]
        ELSE [status |-> st, done |-> done]

\* Drain taking the newest event first (a LIFO channel)
RECURSIVE Drain_NewestFirst(_, _, _)
Drain_NewestFirst(st, done, queue) ==
    IF queue = << >> THEN [status |-> st, done |-> done, queue |-> queue]
    ELSE LET r == ApplyEvent(st, done, queue[Len(queue)])
         IN  Drain_NewestFirst(r.status, r.done, SubSeq(queue, 1, Len(queue) - 1))

\* Drain taking one event per invocation
Drain_OneEvent(st, done, queue) ==
    IF queue = << >> THEN [status |-> st, done |-> done, queue |-> queue]
    ELSE LET r == ApplyEvent(st, done, Head(queue))
         IN  [status |-> r.status, done |-> r.done, queue |-> Tail(queue)]

\* lines 405-426: get_nowait() until queue.Empty.  The worker only appends
\* behind what the loop takes, so the loop is one step on the queue as it
\* stands when Empty is raised.
RECURSIVE Drain(_, _, _)
Drain(st, done, queue) ==
    IF queue = << >> THEN [status |-> st, done |-> done, queue |-> queue]
    \* r is bound by a set so that it is evaluated once per event
    ELSE CHOOSE drained \in {Drain(r.status, r.done, Tail(queue)) :
                                r \in {ApplyEvent(st, done, Head(queue))}} : TRUE

\* _process_remote_job_queue popping the entry as soon as the queue is empty
_process_remote_job_queue_PopWhenEmpty(s) ==
    IF ACTIVE_RENDER_JOBS[s] = None
    THEN [status |-> status[s], jobs |-> jobs, job_info |-> None]
    ELSE LET job_info == ACTIVE_RENDER_JOBS[s][1]
             j == job_info.job
             r == Drain(status[s], job_info.done, jobs[j].queue)
         IN  [status |-> r.status,
              jobs |-> [jobs EXCEPT ![j].queue = r.queue],
              job_info |-> IF r.queue = << >>
                           THEN None
                           ELSE Some([job |-> j, done |-> r.done])]

\* _process_remote_job_queue(scene): the status, the job's queue and the
\* registry entry of scene s as the call leaves them
_process_remote_job_queue(s) ==
    IF ACTIVE_RENDER_JOBS[s] = None
    THEN [status |-> status[s], jobs |-> jobs, job_info |-> None]
    ELSE LET job_info == ACTIVE_RENDER_JOBS[s][1]
             j == job_info.job
             r == Drain(status[s], job_info.done, jobs[j].queue)
         IN  [status |-> r.status,
              jobs |-> [jobs EXCEPT ![j].queue = r.queue],
              job_info |-> IF r.done /\ r.queue = << >>
                           THEN None
                           ELSE Some([job |-> j, done |-> r.done])]

\* Poll writing what it drained to the status of the scene on screen
\* instead of the owner's
Poll_OtherOwner(s) ==
    LET r == _process_remote_job_queue(s)
        shown == CHOOSE t \in Scenes : t # s
    IN  /\ status' = [status EXCEPT ![shown] = r.status]
        /\ jobs' = r.jobs
        /\ ACTIVE_RENDER_JOBS' = [ACTIVE_RENDER_JOBS EXCEPT ![s] = r.job_info]

Poll(s) ==
    LET r == _process_remote_job_queue(s)
    IN  /\ status' = [status EXCEPT ![s] = r.status]
        /\ jobs' = r.jobs
        /\ ACTIVE_RENDER_JOBS' = [ACTIVE_RENDER_JOBS EXCEPT ![s] = r.job_info]

\* the callback stopping as soon as it leaves the queue empty
Reschedule_StopWhenIdle(job_info, job_list) ==
    IF job_info = None THEN FALSE
    ELSE job_list[job_info[1].job].queue # << >>

\* lines 448-456: what the callback returns once the queue was processed:
\* TRUE for the 0.5 s interval, FALSE for None
Reschedule(job_info, job_list) ==
    IF job_info = None THEN FALSE
    ELSE IF job_info[1].done /\ job_list[job_info[1].job].queue = << >> THEN FALSE
    ELSE TRUE

\* the callback draining the queue of a job whose scene is gone
TimerFire_DrainsOrphan(j) ==
    /\ j \in timers
    /\ Poll(jobs[j].owner)
    /\ timers' = IF Reschedule(ACTIVE_RENDER_JOBS'[jobs[j].owner], jobs')
                 THEN timers ELSE timers \ {j}
    /\ UNCHANGED <<registered, requests, sceneExists, sceneProps, popupOpen, report>>

\* _remote_job_timer_callback(scene_key), the callback registered for job j
TimerFire(j) ==
    /\ j \in timers
    /\ LET scene_key == jobs[j].owner
       IN  IF ~sceneExists[scene_key]
           THEN /\ ACTIVE_RENDER_JOBS' = [ACTIVE_RENDER_JOBS EXCEPT ![scene_key] = None]
                /\ timers' = timers \ {j}
                /\ UNCHANGED <<status, jobs>>
           ELSE IF ~registered
           THEN \* Scene.rfarm_status is gone: the callback raises and Blender drops it
                /\ timers' = timers \ {j}
                /\ UNCHANGED <<status, jobs, ACTIVE_RENDER_JOBS>>
           ELSE /\ Poll(scene_key)
                /\ timers' = IF Reschedule(ACTIVE_RENDER_JOBS'[scene_key], jobs')
                             THEN timers ELSE timers \ {j}
    /\ UNCHANGED <<registered, requests, sceneExists, sceneProps, popupOpen, report>>

\* RFarm_OT_render_status_popup.modal on a TIMER event, context.scene = s
PopupTimer(s) ==
    /\ popupOpen
    /\ registered
    /\ sceneExists[s]
    /\ Poll(s)
    /\ LET job_active == /\ ACTIVE_RENDER_JOBS'[s] # None
                         /\ ACTIVE_RENDER_JOBS'[s][1].done # TRUE
       IN  popupOpen' = (job_active \/ status'[s].is_rendering)
    /\ UNCHANGED <<registered, requests, sceneExists, sceneProps, timers, report>>

\* RFarm_OT_render_status_popup.modal on ESC / RIGHTMOUSE
PopupClose ==
    /\ popupOpen
    /\ popupOpen' = FALSE
    /\ UNCHANGED <<registered, requests, sceneExists, sceneProps, status, ACTIVE_RENDER_JOBS,
                   jobs, timers, report>>

(***************************************************************************)
(* The environment of the add-on: a scene is deleted; the add-on is        *)
(* disabled.                                                                *)
(***************************************************************************)
\* bpy.data.scenes.remove(scene); Blender keeps at least one scene
SceneRemove(s) ==
    /\ sceneExists[s]
    /\ \E other \in Scenes \ {s} : sceneExists[other]
    /\ sceneExists' = [sceneExists EXCEPT ![s] = FALSE]
    /\ status' = [status EXCEPT ![s] = DefaultStatus]
    /\ UNCHANGED <<registered, requests, sceneProps, ACTIVE_RENDER_JOBS, jobs, timers,
                   popupOpen, report>>

\* the operator edits scene s in the UI: any event of the main thread that
\* is not one of the add-on's handlers
SceneEdit(s, props) ==
    /\ sceneExists[s]
    /\ sceneProps[s] # props
    /\ sceneProps' = [sceneProps EXCEPT ![s] = props]
    /\ UNCHANGED <<registered, requests, sceneExists, status, ACTIVE_RENDER_JOBS, jobs,
                   timers, popupOpen, report>>

\* unregister(), lines 647-659
Unregister ==
    /\ registered
    /\ timers' = timers \ {ACTIVE_RENDER_JOBS[s][1].job :
                              s \in {x \in Scenes : ACTIVE_RENDER_JOBS[x] # None}}
    /\ ACTIVE_RENDER_JOBS' = [s \in Scenes |-> None]
    /\ registered' = FALSE
    /\ UNCHANGED <<requests, sceneExists, sceneProps, status, jobs, popupOpen, report>>

(***************************************************************************)
(* src/cloud_run/app.py.  A str the handlers look into is a sequence of    *)
(* one-character strings; a base64 text is a sequence of symbols as above.  *)
(***************************************************************************)
\* raise HTTPException(status_code=..., detail=...)
HTTPException(status_code, detail) == [status_code |-> status_code, detail |-> detail]

\* what FastAPI answers when a handler raises anything but an HTTPException
InternalServerError == [status_code |-> 500, detail |-> "Internal Server Error"]

\* str.startswith
startswith(str, prefix) ==
    Len(str) >= Len(prefix) /\ SubSeq(str, 1, Len(prefix)) = prefix

\* str.split(sep, 1): the parts, one or two
split1(str, sep) ==
    IF \E i \in 1..Len(str) : str[i] = sep
    THEN LET i == CHOOSE k \in 1..Len(str) :
                    str[k] = sep /\ \A m \in 1..(k - 1) : str[m] # sep
         IN  <<SubSeq(str, 1, i - 1), SubSeq(str, i + 1, Len(str))>>
    ELSE <<str>>

GsScheme == <<"g", "s", ":", "/", "/">>

\* _parse_gcs_uri
_parse_gcs_uri(gcs_uri) ==
    IF ~startswith(gcs_uri, GsScheme)
    THEN [raises |-> Some(HTTPException(400, "Invalid GCS URI"))]
    ELSE LET path == SubSeq(gcs_uri, Len(GsScheme) + 1, Len(gcs_uri))
             parts == split1(path, "/")
         IN  IF Len(parts) # 2
             THEN [raises |-> Some(HTTPException(400, "Invalid GCS URI"))]
             ELSE IF parts[1] = << >> \/ parts[2] = << >>
             THEN [raises |-> Some(HTTPException(400, "Invalid GCS URI"))]
             ELSE [raises |-> None, bucket_name |-> parts[1], blob_name |-> parts[2]]

\* what storage.Client() and blob.download_to_filename can do
DownloadOutcomes == {"ok", "GoogleAPIError", "DefaultCredentialsError", "no_file"}

\* _get_storage_client: the global as the call leaves it; credentials is
\* FALSE when storage.Client() raises DefaultCredentialsError
_get_storage_client(client, credentials) ==
    IF client # None THEN client
    ELSE IF credentials THEN Some("storage.Client") ELSE None

\* _download_blend_from_gcs(tmp_dir, gcs_uri): what it raises, whether the
\* blob was asked for, whether <tmp_dir>/scene.blend exists afterwards, and
\* the global client
_download_blend_from_gcs(client, gcs_uri, outcome) ==
    LET parsed == _parse_gcs_uri(gcs_uri)
        after == _get_storage_client(client, outcome # "DefaultCredentialsError")
    IN  IF parsed.raises # None
        THEN [raises |-> parsed.raises, fetched |-> FALSE, blend_exists |-> FALSE,
              client |-> client]
        ELSE IF after = None
        THEN [raises |-> Some(InternalServerError), fetched |-> FALSE,
              blend_exists |-> FALSE, client |-> after]
        ELSE IF outcome = "GoogleAPIError"
        THEN [raises |-> Some(HTTPException(502, "Failed to download blend file: 404 No such object")),
              fetched |-> TRUE, blend_exists |-> FALSE, client |-> after]
        ELSE IF outcome = "no_file"
        THEN [raises |-> Some(HTTPException(500, "Blend download failed")),
              fetched |-> TRUE, blend_exists |-> FALSE, client |-> after]
        ELSE [raises |-> None, fetched |-> TRUE, blend_exists |-> TRUE, client |-> after]

\* base64.b64decode of a text of symbols: the padding error, or the bytes
RECURSIVE b64decode(_)
b64decode(text) ==
    IF text = << >> THEN [raises |-> None, bytes |-> << >>]
    ELSE IF Len(text) < 4 \/ text[1] = B64Pad \/ text[2] = B64Pad
    THEN [raises |-> Some("binascii.Error: Incorrect padding"), bytes |-> << >>]
    ELSE LET b1 == text[1] * 4 + (text[2] \div 16)
             b2 == (text[2] % 16) * 16 + (text[3] \div 4)
             b3 == (text[3] % 4) * 64 + text[4]
             rest == b64decode(SubSeq(text, 5, Len(text)))
         IN  IF text[3] = B64Pad
             THEN [raises |-> None, bytes |-> <<b1>>]
             ELSE IF text[4] = B64Pad
             THEN [raises |-> None, bytes |-> <<b1, b2>>]
             ELSE IF rest.raises # None THEN rest
             ELSE [raises |-> None, bytes |-> <<b1, b2, b3>> \o rest.bytes]

\* _write_blend_file: open(blend_path, "wb") creates the file before
\* b64decode is evaluated
_write_blend_file(blend_data) ==
    LET decoded == b64decode(blend_data)
    IN  IF decoded.raises # None
        THEN [raises |-> Some(InternalServerError), blend_exists |-> TRUE, bytes |-> << >>]
        ELSE [raises |-> None, blend_exists |-> TRUE, bytes |-> decoded.bytes]

(***************************************************************************)
(* _run_blender.  A line of the captured output is [json |-> None] when     *)
(* json.loads raises JSONDecodeError, and otherwise [json |-> <<value>>],   *)
(* value being [type |-> "object", value |-> the dict as a record],          *)
(* [type |-> "list", value |-> a sequence], [type |-> "string", value |->   *)
(* its characters], [type |-> "number"] or [type |-> "null"].  A path is    *)
(* [stem, suffix].                                                           *)
(***************************************************************************)
\* logs[-2000:]
LogTail == 2000

\* TailSlice taking the first n characters instead
TailSlice_Head(chars, n) == [from |-> 0, to |-> IF chars <= n THEN chars ELSE n]

\* text[-n:] of a text of `chars` characters, as the offsets it spans
TailSlice(chars, n) == [from |-> Max(chars - n, 0), to |-> chars]

FramePng == [stem |-> "/tmp/rfarm_x/output/frame", suffix |-> ".png"]

FrameBare == [stem |-> "/tmp/rfarm_x/output/frame", suffix |-> ""]

NoiseLine == [json |-> None]

ObjectLine(fields) == [json |-> Some([type |-> "object", value |-> fields])]

\* the line render_worker.py prints, line 81
OutputLine(path) == ObjectLine([output_path |-> path])

\* the characters of "output_path"
KeyChars == <<"o", "u", "t", "p", "u", "t", "_", "p", "a", "t", "h">>

\* `sub in text` for two str
Substring(sub, text) ==
    \E i \in 0..(Len(text) - Len(sub)) : SubSeq(text, i + 1, i + Len(sub)) = sub

\* ScanLogs looking at one line only
ScanLogs_FirstLineOnly(lines, i) ==
    IF /\ i <= Len(lines)
       /\ lines[i].json # None
       /\ lines[i].json[1].type = "object"
       /\ "output_path" \in DOMAIN lines[i].json[1].value
    THEN [raises |-> None, output_path |-> Some(lines[i].json[1].value.output_path)]
    ELSE [raises |-> None, output_path |-> None]

\* lines 228-236, from line i of the log on: the path found, or the
\* TypeError of `"output_path" in payload` / payload["output_path"]
RECURSIVE ScanLogs(_, _)
ScanLogs(lines, i) ==
    IF i > Len(lines) THEN [raises |-> None, output_path |-> None]
    ELSE IF lines[i].json = None THEN ScanLogs(lines, i + 1)
    ELSE LET payload == lines[i].json[1]
         IN  IF payload.type = "object"
             THEN IF "output_path" \in DOMAIN payload.value
                  THEN [raises |-> None, output_path |-> Some(payload.value.output_path)]
                  ELSE ScanLogs(lines, i + 1)
             ELSE IF payload.type = "list"
             THEN IF \E k \in 1..Len(payload.value) : payload.value[k] = "output_path"
                  THEN [raises |-> Some("TypeError"), output_path |-> None]
                  ELSE ScanLogs(lines, i + 1)
             ELSE IF payload.type = "string"
             THEN IF Substring(KeyChars, payload.value)
                  THEN [raises |-> Some("TypeError"), output_path |-> None]
                  ELSE ScanLogs(lines, i + 1)
             ELSE [raises |-> Some("TypeError"), output_path |-> None]

\* lines json.loads rejects: Blender's own text, an empty line
NoiseTexts == {"Blender 4.1.0", ""}

\* n lines of diagnostic text
Noise(n, text) == [i \in 1..n |-> [json |-> None, text |-> text]]

\* render_worker.py's line among Blender's diagnostic text
NoisyOutcomes ==
    {[returncode |-> 0,
      lines |-> Noise(before, text) \o <<OutputLine(FramePng)>> \o Noise(after, text),
      chars |-> 60 + 14 * (before + after),
      files |-> {FramePng}] :
        before \in 0..MaxNoise, after \in 0..MaxNoise, text \in NoiseTexts}

\* what subprocess.run of Blender can leave behind: the exit code, the
\* captured output (its lines and its length in characters), and the files
\* that exist in the output directory with their bytes
BlenderFailed == [returncode |-> 1, lines |-> <<NoiseLine>>, chars |-> 120, files |-> {}]

BlenderOk ==
    [returncode |-> 0, lines |-> <<NoiseLine, OutputLine(FramePng), NoiseLine>>,
     chars |-> 300, files |-> {FramePng}]

BlenderOutcomes ==
    {[returncode |-> 1, lines |-> << >>, chars |-> 0, files |-> {}],
     BlenderFailed,
     [returncode |-> 2, lines |-> <<NoiseLine, NoiseLine>>, chars |-> 2000, files |-> {}],
     [returncode |-> 1, lines |-> <<NoiseLine, NoiseLine>>, chars |-> 2001, files |-> {}],
     [returncode |-> 1, lines |-> <<NoiseLine, OutputLine(FramePng)>>, chars |-> 5000,
      files |-> {FramePng}],
     BlenderOk,
     [returncode |-> 0, lines |-> <<NoiseLine, OutputLine(FramePng)>>,
      chars |-> 300, files |-> {}],
     [returncode |-> 0, lines |-> <<NoiseLine>>, chars |-> 40, files |-> {FramePng}],
     [returncode |-> 0, lines |-> <<OutputLine(FrameBare), OutputLine(FramePng)>>,
      chars |-> 200, files |-> {FramePng}],
     [returncode |-> 0,
      lines |-> <<ObjectLine([status |-> "rendering"]), OutputLine(FrameBare),
                  OutputLine(FramePng)>>,
      chars |-> 300, files |-> {FrameBare, FramePng}],
     [returncode |-> 0,
      lines |-> <<[json |-> Some([type |-> "list", value |-> <<"a">>])],
                  OutputLine(FramePng)>>,
      chars |-> 300, files |-> {FramePng}],
     [returncode |-> 0,
      lines |-> <<[json |-> Some([type |-> "string", value |-> <<"o", "k">>])],
                  OutputLine(FramePng)>>,
      chars |-> 300, files |-> {FramePng}],
     [returncode |-> 0,
      lines |-> <<[json |-> Some([type |-> "number"])], OutputLine(FramePng)>>,
      chars |-> 300, files |-> {FramePng}]}
    \cup NoisyOutcomes

\* the bytes Blender wrote to a frame
ImageBytes == <<137, 80, 78>>

\* OutputMissing without output_path.exists()
OutputMissing_NoExistsCheck(output_path, files) == output_path = None

\* line 238: `not output_path or not output_path.exists()`
OutputMissing(output_path, files) == output_path = None \/ output_path[1] \notin files

\* _run_blender(blend_path, request), from the outcome of subprocess.run on
_run_blender(outcome) ==
    IF outcome.returncode # 0
    THEN [raises |-> Some(HTTPException(500,
                        [text |-> "Blender failed: ",
                         logs |-> TailSlice(outcome.chars, LogTail)])),
          scanned |-> FALSE]
    ELSE LET scan == ScanLogs(outcome.lines, 1)
         IN  IF scan.raises # None
             THEN [raises |-> Some(InternalServerError), scanned |-> TRUE]
             ELSE IF OutputMissing(scan.output_path, outcome.files)
             THEN [raises |-> Some(HTTPException(500, "Render worker did not produce output")),
                   scanned |-> TRUE]
             ELSE [raises |-> None,
                   scanned |-> TRUE,
                   output_path |-> scan.output_path[1],
                   image_base64 |-> b64encode(ImageBytes),
                   logs |-> outcome.lines]

\* str.lstrip(".").upper() of a suffix
SuffixUpper(suffix) ==
    IF suffix = ".png" THEN "PNG" ELSE IF suffix = ".jpg" THEN "JPG" ELSE ""

\* line 263: suffix or request.render_settings.file_format or "PNG"
OutputFormat(path, file_format) ==
    IF SuffixUpper(path.suffix) # "" THEN SuffixUpper(path.suffix)
    ELSE IF TruthyStr(file_format) THEN file_format[1]
    ELSE "PNG"

\* Finally without the rmtree of line 277
Finally_UnlinkOnly(blend_path, blend_exists) ==
    LET unlinked == blend_path # None /\ blend_exists
    IN  [unlinked |-> unlinked,
         blend_exists |-> blend_exists /\ ~unlinked,
         tmp_dir |-> "exists"]

\* lines 271-277, the `finally` clause of render_endpoint, from blend_path
\* and whether <tmp_dir>/scene.blend exists: the file is unlinked when
\* blend_path was assigned, and the directory is removed with what is in it
Finally(blend_path, blend_exists) ==
    LET unlinked == blend_path # None /\ blend_exists
        tmp_dir == "deleted"
    IN  [unlinked |-> unlinked,
         blend_exists |-> blend_exists /\ ~unlinked /\ tmp_dir # "deleted",
         tmp_dir |-> tmp_dir]

\* InputPath with the two tests in the other order
InputPath_InlineFirst(request) ==
    IF TruthyText(request.blend_file) THEN "inline"
    ELSE IF TruthyText(request.blend_gcs_uri) THEN "gcs"
    ELSE "none"

\* lines 255-260: the branch the handler takes
InputPath(request) ==
    IF TruthyText(request.blend_gcs_uri) THEN "gcs"
    ELSE IF TruthyText(request.blend_file) THEN "inline"
    ELSE "none"

\* render_endpoint(request): the response, the input-resolution calls made
\* (blob fetch, base64 decode), whether Blender ran, what is left of the
\* temporary directory, and the global client
render_endpoint(request, client, download, blender) ==
    LET input ==
            IF InputPath(request) = "gcs"
            THEN LET d == _download_blend_from_gcs(client, request.blend_gcs_uri[1], download)
                 IN  [raises |-> d.raises, path |-> "gcs", fetched |-> d.fetched,
                      decoded |-> FALSE, blend_exists |-> d.blend_exists,
                      blend_path |-> IF d.raises = None THEN Some("scene.blend") ELSE None,
                      client |-> d.client]
            ELSE IF InputPath(request) = "inline"
            THEN LET w == _write_blend_file(request.blend_file[1])
                 IN  [raises |-> w.raises, path |-> "inline", fetched |-> FALSE,
                      decoded |-> TRUE, blend_exists |-> w.blend_exists,
                      blend_path |-> IF w.raises = None THEN Some("scene.blend") ELSE None,
                      client |-> client]
            ELSE [raises |-> Some(HTTPException(400, "Missing blend file reference")),
                  path |-> "none", fetched |-> FALSE, decoded |-> FALSE,
                  blend_exists |-> FALSE, blend_path |-> None, client |-> client]
        run == IF input.raises = None THEN _run_blender(blender)
               ELSE [raises |-> input.raises, scanned |-> FALSE]
        response ==
            IF run.raises # None THEN run.raises[1]
            ELSE [status_code |-> 200,
                  job_id |-> "uuid4",
                  image_base64 |-> run.image_base64,
                  output_format |-> OutputFormat(run.output_path, request.file_format),
                  output_path |-> run.output_path.stem \o run.output_path.suffix,
                  logs |-> run.logs]
        cleanup == Finally(input.blend_path, input.blend_exists)
    IN  [endpoint |-> "/render",
         request |-> request,
         response |-> response,
         path |-> input.path,
         fetched |-> input.fetched,
         decoded |-> input.decoded,
         blender_runs |-> IF input.raises = None THEN 1 ELSE 0,
         blender |-> IF input.raises = None THEN Some(blender) ELSE None,
         scanned |-> run.scanned,
         blend_written |-> input.blend_exists,
         unlinked |-> cleanup.unlinked,
         blend_exists |-> cleanup.blend_exists,
         tmp_dir |-> cleanup.tmp_dir,
         client |-> input.client]

\* "gs://b/u/o" and its malformed kin, "" and None
GcsUris ==
    {None,
     Some(<< >>),
     Some(GsScheme \o <<"b", "/", "u", "/", "o">>),
     Some(GsScheme \o <<"b">>),
     Some(GsScheme \o <<"/", "o">>),
     Some(GsScheme \o <<"b", "/">>),
     Some(<<"h", "t", "t", "p", ":", "/", "/", "b", "/", "o">>)}

\* the text of two bytes, a text with a missing symbol, "" and None
InlineFiles == {None, Some(<< >>), Some(b64encode(<<66, 76>>)), Some(<<16, 36, 19>>)}

RenderRequests ==
    [frame : {1}, blend_gcs_uri : GcsUris, blend_file : InlineFiles,
     file_format : {None, Some("JPEG")}]

\* POST /render
Render(request, download, blender) ==
    LET r == render_endpoint(request, _storage_client, download, blender)
    IN  /\ served' = Some(r)
        /\ _storage_client' = r.client
        /\ UNCHANGED <<clientVars, _service_account_email, GCS_BUCKET>>

(***************************************************************************)
(* create_upload_url and its alias.                                         *)
(***************************************************************************)
\* where _get_service_account_email can find an identity: the environment
\* variables, the ambient credentials (None: DefaultCredentialsError, or no
\* service_account_email), the metadata server (None: URLError, OSError or
\* TimeoutError; "" when the body is blank)
IdentityEnvs ==
    [env_email : {None, Some("sa@env")},
     credentials_email : {None, Some("sa@adc")},
     metadata_email : {None, Some(""), Some("sa@meta")}]

\* _get_service_account_email: what it returns, the global as it leaves it,
\* and the lookups it made
_get_service_account_email(cached, env) ==
    IF TruthyStr(cached)
    THEN [email |-> cached, cached |-> cached, lookups |-> << >>]
    ELSE IF TruthyStr(env.env_email)
    THEN [email |-> env.env_email, cached |-> env.env_email, lookups |-> <<"environ">>]
    ELSE IF TruthyStr(env.credentials_email)
    THEN [email |-> env.credentials_email, cached |-> env.credentials_email,
          lookups |-> <<"environ", "google.auth.default">>]
    ELSE [email |-> env.metadata_email, cached |-> env.metadata_email,
          lookups |-> <<"environ", "google.auth.default", "metadata">>]

\* what blob.generate_signed_url can do: return the URL, raise a
\* GoogleAPIError, raise something else (no key to sign with)
SignOutcomes == {"ok", "GoogleAPIError", "AttributeError"}

Filenames == {"scene.blend", "shot 1.blend"}

\* SIGNED_URL_TTL_MINUTES, line 30, in seconds
SignedUrlTtl == 900

MsgUnconfigured == "RFARM_GCS_BUCKET is not configured"

\* create_upload_url with the storage client obtained ahead of the test of
\* the bucket
create_upload_url_ClientFirst(filename, bucket, client, email, credentials, identity, sign) ==
    [response |-> HTTPException(500, MsgUnconfigured),
     client |-> _get_storage_client(client, credentials), email |-> email,
     constructed |-> client = None, lookups |-> << >>, signed |-> FALSE,
     raised |-> None]

\* create_upload_url(request): the response, the two globals as it leaves
\* them, the calls it made and what the try block raised
create_upload_url(filename, bucket, client, email, credentials, identity, sign) ==
    IF ~TruthyStr(bucket)
    THEN [response |-> HTTPException(500, MsgUnconfigured),
          client |-> client, email |-> email,
          constructed |-> FALSE, lookups |-> << >>, signed |-> FALSE,
          raised |-> None]
    ELSE LET after == _get_storage_client(client, credentials)
             constructed == client = None
             resolved == _get_service_account_email(email, identity)
             object_name == "uploads/uuid4/" \o filename
             called == [client |-> after, email |-> resolved.cached,
                        constructed |-> constructed, lookups |-> resolved.lookups,
                        signed |-> TRUE]
         IN  IF after = None
             THEN [response |-> InternalServerError, client |-> after, email |-> email,
                   constructed |-> constructed, lookups |-> << >>, signed |-> FALSE,
                   raised |-> Some("DefaultCredentialsError")]
             ELSE IF sign = "GoogleAPIError"
             THEN [response |-> HTTPException(502, "Failed to generate upload URL: 403 Forbidden"),
                   raised |-> Some(sign)] @@ called
             ELSE IF sign # "ok"
             THEN [response |-> InternalServerError, raised |-> Some(sign)] @@ called
             ELSE [response |->
                     [status_code |-> 200,
                      upload_url |-> "https://storage.googleapis.com/" \o bucket[1]
                                     \o "/" \o object_name \o "?X-Goog-Signature",
                      signed_as |-> IF TruthyStr(resolved.email) THEN resolved.email
                                    ELSE None,
                      blob_name |-> object_name,
                      gcs_uri |-> "gs://" \o bucket[1] \o "/" \o object_name,
                      expires_in |-> SignedUrlTtl],
                   raised |-> None] @@ called

\* POST /upload-url, and POST /upload which awaits the same handler
UploadUrl(endpoint, filename, credentials, identity, sign) ==
    LET r == create_upload_url(filename, GCS_BUCKET, _storage_client,
                               _service_account_email, credentials, identity, sign)
    IN  /\ served' = Some([endpoint |-> endpoint,
                          request |-> [filename |-> filename],
                          response |-> r.response,
                          client_before |-> _storage_client,
                          email_before |-> _service_account_email,
                          constructed |-> r.constructed,
                          lookups |-> r.lookups,
                          signed |-> r.signed,
                          raised |-> r.raised])
        /\ _storage_client' = r.client
        /\ _service_account_email' = r.email
        /\ UNCHANGED <<clientVars, GCS_BUCKET>>

(***************************************************************************)
(* Specifications.  Each draws the inputs of the operator and the answers  *)
(* of the network and the file system from an environment.                  *)
(***************************************************************************)
UploadOk == [status_code |-> 200, text |-> ""]

UploadFailed == [status_code |-> 500, text |-> "Internal Server Error"]

\* every input and every answer
EnvFull ==
    [scenes |-> {"scene_a"}, max_jobs |-> MaxRuns,
     endpoints |-> {"https://rfarm.example"}, engines |-> {"CYCLES"},
     export_can_fail |-> FALSE, popup |-> {FALSE},
     blend_files |-> BlendFiles,
     grant |-> GrantResponses, upload |-> UploadResponses, readable |-> BOOLEAN,
     render |-> RenderResponses, writable |-> BOOLEAN]

\* a service that works, is a legacy deployment, or fails the upload or the
\* render
EnvLite ==
    [scenes |-> {"scene_a"}, max_jobs |-> MaxJobs,
     endpoints |-> Endpoints, engines |-> Engines,
     export_can_fail |-> TRUE, popup |-> BOOLEAN,
     blend_files |-> {<<66, 76>>},
     grant |-> {GrantOk, GrantNotFound}, upload |-> {UploadOk, UploadFailed},
     readable |-> {TRUE},
     render |-> {RenderOk, RenderFailed}, writable |-> {TRUE}]

\* EnvLite without the status popup
EnvNoPopup == [EnvLite EXCEPT !.popup = {FALSE}]

\* Spec: one owner's jobs, polled by the timer and by the status popup
Next ==
    \/ \E s \in EnvLite.scenes : Execute(s, EnvLite) /\ UNCHANGED serverVars
    \/ \E j \in JobIds : Worker(j, EnvLite) /\ UNCHANGED serverVars
    \/ \E j \in JobIds : TimerFire(j) /\ UNCHANGED serverVars
    \/ \E s \in Scenes : PopupTimer(s) /\ UNCHANGED serverVars
    \/ PopupClose /\ UNCHANGED serverVars

Spec == Init /\ [][Next]_vars

\* SpecTeardown: the owner scene is deleted or the add-on disabled at any
\* moment of a job
NextTeardown ==
    \/ \E s \in EnvNoPopup.scenes : Execute(s, EnvNoPopup) /\ UNCHANGED serverVars
    \/ \E j \in JobIds : Worker(j, EnvNoPopup) /\ UNCHANGED serverVars
    \/ \E j \in JobIds : TimerFire(j) /\ UNCHANGED serverVars
    \/ \E s \in Scenes : SceneRemove(s) /\ UNCHANGED serverVars
    \/ Unregister /\ UNCHANGED serverVars

SpecTeardown == Init /\ [][NextTeardown]_vars

\* SpecShutdown: the add-on is disabled at any moment of a job that the
\* timer and the status popup both poll
EnvShutdown == [EnvLite EXCEPT !.max_jobs = MaxRuns]

NextShutdown ==
    \/ \E s \in EnvShutdown.scenes : Execute(s, EnvShutdown) /\ UNCHANGED serverVars
    \/ \E j \in JobIds : Worker(j, EnvShutdown) /\ UNCHANGED serverVars
    \/ \E j \in JobIds : TimerFire(j) /\ UNCHANGED serverVars
    \/ \E s \in Scenes : PopupTimer(s) /\ UNCHANGED serverVars
    \/ PopupClose /\ UNCHANGED serverVars
    \/ Unregister /\ UNCHANGED serverVars

SpecShutdown == Init /\ [][NextShutdown]_vars

\* SpecRunner: every answer of the network and the file system at every step
\* of the worker
NextRunner ==
    \/ \E s \in EnvFull.scenes : Execute(s, EnvFull) /\ UNCHANGED serverVars
    \/ \E j \in JobIds : Worker(j, EnvFull) /\ UNCHANGED serverVars
    \/ \E j \in JobIds : TimerFire(j) /\ UNCHANGED serverVars

SpecRunner == Init /\ [][NextRunner]_vars

\* SpecEdit: the operator edits the scene at any moment of a job
EnvEdit ==
    [EnvNoPopup EXCEPT !.max_jobs = MaxRuns,
                       !.endpoints = {"https://rfarm.example"}, !.engines = {"CYCLES"},
                       !.export_can_fail = FALSE,
                       !.upload = {UploadOk}, !.render = {RenderOk}]

NextEdit ==
    \/ \E s \in EnvEdit.scenes : Execute(s, EnvEdit) /\ UNCHANGED serverVars
    \/ \E j \in JobIds : Worker(j, EnvEdit) /\ UNCHANGED serverVars
    \/ \E j \in JobIds : TimerFire(j) /\ UNCHANGED serverVars
    \/ \E s \in EnvEdit.scenes, props \in SceneEdits :
          SceneEdit(s, props) /\ UNCHANGED serverVars

SpecEdit == Init /\ [][NextEdit]_vars

\* SpecOwners: two scenes render at the same time
EnvOwners ==
    [EnvEdit EXCEPT !.scenes = Scenes, !.max_jobs = MaxJobs, !.popup = BOOLEAN,
                    !.grant = {GrantOk}]

NextOwners ==
    \/ \E s \in EnvOwners.scenes : Execute(s, EnvOwners) /\ UNCHANGED serverVars
    \/ \E j \in JobIds : Worker(j, EnvOwners) /\ UNCHANGED serverVars
    \/ \E j \in JobIds : TimerFire(j) /\ UNCHANGED serverVars
    \/ \E s \in Scenes : PopupTimer(s) /\ UNCHANGED serverVars
    \/ PopupClose /\ UNCHANGED serverVars

SpecOwners == Init /\ [][NextOwners]_vars

\* a service that answers, refuses or times out
EnvLive ==
    [EnvNoPopup EXCEPT !.max_jobs = MaxRuns,
                       !.grant = {GrantOk, GrantNotFound, ConnectionError},
                       !.render = {RenderOk, RenderFailed, ConnectionError}]

NextLive ==
    \/ \E s \in EnvLive.scenes : Execute(s, EnvLive) /\ UNCHANGED serverVars
    \/ \E j \in JobIds : Worker(j, EnvLive) /\ UNCHANGED serverVars
    \/ \E j \in JobIds : TimerFire(j) /\ UNCHANGED serverVars

\* the thread of every job keeps running (every network call returns or
\* raises) and Blender keeps calling every registered timer
FairRunner ==
    \A j \in 1..MaxRuns :
        /\ WF_vars(j \in JobIds /\ Worker(j, EnvLive) /\ UNCHANGED serverVars)
        /\ WF_vars(j \in JobIds /\ TimerFire(j) /\ UNCHANGED serverVars)

\* SpecLive: the jobs of one owner, polled by the timer, under fairness
SpecLive == Init /\ [][NextLive]_vars /\ FairRunner

\* the answers of the object store that a request can meet: one stands for
\* all when the handler does not get as far as asking
DownloadsFor(request) ==
    IF /\ InputPath(request) = "gcs"
       /\ _parse_gcs_uri(request.blend_gcs_uri[1]).raises = None
    THEN DownloadOutcomes ELSE {"ok"}

AnyBlenderOutcome == CHOOSE outcome \in BlenderOutcomes : TRUE

\* the outcomes of Blender that a request can meet, likewise
BlendersFor(request, download) ==
    IF render_endpoint(request, _storage_client, download, AnyBlenderOutcome).blender_runs = 1
    THEN BlenderOutcomes ELSE {AnyBlenderOutcome}

\* SpecServer: the requests the application serves, one after the other
NextServer ==
    \E request \in RenderRequests :
        \E download \in DownloadsFor(request) :
            \E blender \in BlendersFor(request, download) :
                Render(request, download, blender)

SpecServer == Init /\ [][NextServer]_vars

\* the requests the add-on sends to /render: the blob it uploaded, or the
\* file inline
AddonRenderRequests ==
    {request \in RenderRequests :
        /\ request.file_format = None
        /\ \/ request.blend_gcs_uri = Some(GsScheme \o <<"b", "/", "u", "/", "o">>)
              /\ request.blend_file = None
           \/ request.blend_gcs_uri = None
              /\ request.blend_file = Some(b64encode(<<66, 76>>))}

\* SpecGrant: the grants the service issues, under every configuration of
\* the bucket, between the renders of the add-on's requests
NextGrant ==
    \/ \E endpoint \in {"/upload-url", "/upload"}, filename \in Filenames,
          credentials \in BOOLEAN, identity \in IdentityEnvs, sign \in SignOutcomes :
            UploadUrl(endpoint, filename, credentials, identity, sign)
    \/ \E request \in AddonRenderRequests, download \in DownloadOutcomes,
          blender \in {BlenderOk, BlenderFailed} :
            Render(request, download, blender)

SpecGrant == InitServer /\ [][NextGrant]_vars

(***************************************************************************)
(* Properties                                                               *)
(***************************************************************************)
Entry(s) == ACTIVE_RENDER_JOBS[s]

\* the registry holds a job of owner s whose result has not been applied
ActiveJob(s) == Entry(s) # None /\ ~Entry(s)[1].done

\* job j is the one the registry holds for its owner
Registered(j) == Entry(jobs[j].owner) # None /\ Entry(jobs[j].owner)[1].job = j

\* the jobs of owner s that got a worker thread
ThreadsOf(s) == {j \in JobIds : jobs[j].owner = s /\ jobs[j].thread # "none"}

LatestJob(s) == CHOOSE j \in ThreadsOf(s) : \A k \in ThreadsOf(s) : k <= j

IsLog(event) == event[1] = "log"

IsResult(event) == event[1] = "result"

\* the log events of a sequence of events, as the entries they become
LogEntriesOf(events) ==
    LET logs == SelectSeq(events, IsLog)
    IN  [i \in 1..Len(logs) |-> [timestamp |-> logs[i][2], message |-> logs[i][3]]]

\* the Poller has applied a result event to the status of s
Terminal(s) ==
    sceneExists[s] /\ ~status[s].is_rendering /\ status[s].finish_timestamp # 0

\* C1: while the registry holds a job of owner s whose result has not been
\* applied, is_rendering is set, so execute() takes the "already running"
\* return; no step then creates a temporary directory, a thread or a timer
\* for s, or puts another job in the registry entry of s; and the step that
\* reports "already running" changes nothing but the report.
C1_RejectedWhileActive ==
    [][/\ \A s \in Scenes :
            ActiveJob(s) =>
              /\ status[s].is_rendering
              /\ \A j \in 1..Len(jobs') : j > Len(jobs) => jobs'[j].owner # s
              /\ \A j \in timers' \ timers : jobs'[j].owner # s
              /\ \/ Entry(s)' = None
                 \/ Entry(s)'[1].job = Entry(s)[1].job
       /\ (report' # report /\ \A s \in EnvLite.scenes : ActiveJob(s))
            => report' = MsgAlreadyRunning
       /\ (report' # report /\ report' = MsgAlreadyRunning)
            => UNCHANGED <<registered, requests, sceneExists, sceneProps, status,
                           ACTIVE_RENDER_JOBS, jobs, timers, popupOpen>>
      ]_vars

\* a submission was rejected while the first job is still active
C1_Witness ==
    /\ ActiveJob("scene_a")
    /\ report = MsgAlreadyRunning
    /\ Len(jobs) = 1
    /\ timers = {1}
    /\ jobs[1].thread = "running"

\* C2 (as specified): once the Poller has applied a job's result, the job's
\* temporary directory no longer exists.
C2_TmpdirGoneAtTerminal ==
    \A s \in Scenes : Terminal(s) => jobs[LatestJob(s)].tmpdir = "deleted"

\* C3: a temporary directory is removed exactly once, and only at the exit
\* that owns it: never while the worker still runs, by the submitter when
\* the export fails (no thread exists), by the worker when it ends, whatever
\* became of the owner scene or of the add-on meanwhile.
C3_TmpdirDeletedOnce ==
    \A j \in JobIds :
        /\ jobs[j].rmtree_calls <= 1
        /\ jobs[j].pc = "export_failed"
             => jobs[j].thread = "none" /\ jobs[j].tmpdir = "deleted"
                /\ jobs[j].rmtree_calls = 1
        /\ jobs[j].pc = "done"
             => jobs[j].thread = "finished" /\ jobs[j].tmpdir = "deleted"
                /\ jobs[j].rmtree_calls = 1
        /\ jobs[j].pc \notin {"export_failed", "done"}
             => /\ jobs[j].thread = "running" /\ jobs[j].tmpdir = "exists"
                /\ jobs[j].rmtree_calls = 0
                /\ ENABLED Worker(j, EnvNoPopup)

\* one export failed, and one worker ended after a failure with its owner
\* scene deleted and the add-on disabled
C3_Witness ==
    /\ \E j \in JobIds : jobs[j].pc = "export_failed"
    /\ \E j \in JobIds :
          /\ jobs[j].pc = "done"
          /\ \E i \in 1..Len(jobs[j].sent) :
                IsResult(jobs[j].sent[i]) /\ jobs[j].sent[i][3].status = "error"
          /\ ~sceneExists[jobs[j].owner]
          /\ ~registered

\* C4: for the job the registry holds for an existing owner, the entries
\* appended to the status since the submission, followed by the log events
\* still queued, are the log events the worker has put, in the order it put
\* them; a job the registry no longer holds has nothing queued, and if it is
\* the owner's latest its log events are all in the status.
C4_EventsAppliedInOrder ==
    \A j \in JobIds :
        jobs[j].thread # "none" /\ sceneExists[jobs[j].owner] /\ registered =>
          LET s == jobs[j].owner
          IN  IF Registered(j)
              THEN Tail(status[s].log_entries) \o LogEntriesOf(jobs[j].queue)
                     = LogEntriesOf(jobs[j].sent)
              ELSE /\ jobs[j].queue = << >>
                   /\ \E i \in 1..Len(jobs[j].sent) : IsResult(jobs[j].sent[i])
                   /\ j = LatestJob(s)
                        => Tail(status[s].log_entries) = LogEntriesOf(jobs[j].sent)

\* the worker's log events reached the status over several invocations of
\* the Poller, and the entry was removed
C4_Witness ==
    \E j \in JobIds :
        /\ jobs[j].pc = "finally"
        /\ ~Registered(j) /\ j = LatestJob("scene_a")
        /\ Len(status["scene_a"].log_entries) >= 5
        /\ status["scene_a"].log_index = Len(status["scene_a"].log_entries) - 1

\* the queue of job j holds k log events followed by one result event
LogsThenResult(queue) ==
    /\ queue # << >>
    /\ IsResult(queue[Len(queue)])
    /\ \A i \in 1..(Len(queue) - 1) : IsLog(queue[i])

\* C5: an invocation of the Poller that finds k log events followed by a
\* result event appends the k messages in order, makes the status terminal
\* (flag cleared, finish timestamp, job id and output path or error), empties
\* the channel and removes the registry entry.
C5_OneInvocationDrainsAll ==
    [][\A s \in Scenes :
          (/\ Entry(s) # None
           /\ LogsThenResult(jobs[Entry(s)[1].job].queue)
           /\ \/ status'[s] # status[s]
              \/ jobs'[Entry(s)[1].job].queue # jobs[Entry(s)[1].job].queue)
          => LET j == Entry(s)[1].job
                 queue == jobs[j].queue
                 result == queue[Len(queue)]
             IN  /\ status'[s].log_entries = status[s].log_entries \o LogEntriesOf(queue)
                 /\ ~status'[s].is_rendering
                 /\ status'[s].finish_timestamp = result[2]
                 /\ status'[s].finish_timestamp # 0
                 /\ IF result[3].status = "success"
                    THEN /\ status'[s].last_job_id = result[3].job_id
                         /\ status'[s].last_output_path = result[3].output_path
                         /\ status'[s].last_error = ""
                    ELSE /\ status'[s].last_error = result[3].error
                         /\ status'[s].last_job_id = ""
                         /\ status'[s].last_output_path = ""
                 /\ jobs'[j].queue = << >>
                 /\ Entry(s)' = None
      ]_vars

\* three or more log events and the result event are queued, none applied
\* yet, and the timer is about to fire
C5_Witness ==
    \E s \in Scenes :
        /\ Entry(s) # None
        /\ LogsThenResult(jobs[Entry(s)[1].job].queue)
        /\ Len(jobs[Entry(s)[1].job].queue) >= 4
        /\ Len(status[s].log_entries) = 1
        /\ Entry(s)[1].job \in timers

\* the result events among the events a worker has put
ResultsOf(events) == SelectSeq(events, IsResult)

\* C6: no failure escapes the worker.  A raised failure is held by the
\* `except` clause; the clause logs "Error: <message>" and then puts one error
\* result carrying the message; a worker reaches its end only with exactly
\* one result event put, and that event is the last one; and once the Poller
\* has applied an error result the status is Failed with last_error the
\* message.
C6_FailureBecomesResult ==
    /\ \A j \in JobIds :
          LET job == jobs[j]
              n == Len(job.sent)
          IN  job.thread # "none" =>
                /\ job.pc = "except" => job.exc # None /\ ResultsOf(job.sent) = << >>
                /\ job.pc = "except_result"
                     => /\ job.exc # None /\ ResultsOf(job.sent) = << >>
                        /\ job.sent[n] = <<"log", job.sent[n][2], "Error: " \o job.exc[1]>>
                /\ job.pc \in {"finally", "done"}
                     <=> (Len(ResultsOf(job.sent)) = 1 /\ n > 0 /\ IsResult(job.sent[n]))
                /\ job.pc \notin {"finally", "done"} => ResultsOf(job.sent) = << >>
                /\ job.pc = "finally" /\ job.exc # None
                     => job.sent[n][3] = [status |-> "error", error |-> job.exc[1]]
                /\ (n > 0 /\ IsResult(job.sent[n]) /\ job.sent[n][3].status = "error")
                     => /\ n > 1
                        /\ IsLog(job.sent[n - 1])
                        /\ job.sent[n - 1][3] = "Error: " \o job.sent[n][3].error
                        /\ job.sent[n][3].error # ""
    /\ \A s \in Scenes :
          Terminal(s) =>
            LET sent == jobs[LatestJob(s)].sent
                result == sent[Len(sent)][3]
            IN  result.status = "error"
                  => /\ status[s].last_error = result.error
                     /\ status[s].last_output_path = ""
                     /\ status[s].last_job_id = ""
                     /\ ~status[s].is_rendering

\* the image could not be written, the last step that can fail: the status
\* is Failed with the message, and the worker has ended
C6_Witness ==
    /\ Terminal("scene_a")
    /\ status["scene_a"].last_error = "[Errno 13] Permission denied"
    /\ jobs[LatestJob("scene_a")].pc = "done"
    /\ jobs[LatestJob("scene_a")].posts = 1

\* C7 (as specified): every request body the worker builds has exactly one of
\* the keys blend_file and blend_gcs_uri, for every payload file.
C7_ExactlyOneSource ==
    \A j \in JobIds :
        jobs[j].payload # None
          => (HasKey(jobs[j].payload[1], "blend_file")
                # HasKey(jobs[j].payload[1], "blend_gcs_uri"))

\* the worker has logged message
Logged(job, message) ==
    \E i \in 1..Len(job.sent) : IsLog(job.sent[i]) /\ job.sent[i][3] = message

\* statuses 200..299
Is2xx(status_code) == status_code >= 200 /\ status_code < 300

\* C8 (as specified): a transfer answered with any 2xx status is a success (the
\* worker logs the upload and goes on to build the request), and one answered
\* with any other status, or not answered, fails the job.
C8_Any2xxIsSuccess ==
    \A j \in JobIds :
        jobs[j].upload_response # None =>
          LET response == jobs[j].upload_response[1]
          IN  IF ~Raised(response) /\ Is2xx(response.status_code)
              THEN Logged(jobs[j], MsgUploaded)
              ELSE /\ jobs[j].exc # None
                   /\ jobs[j].posts = 0
                   /\ ~Logged(jobs[j], MsgUploaded)

\* the grant call was answered, not with 404, and not with a 2xx carrying
\* both fields of a grant
GrantHardFailure(response) ==
    \/ Raised(response)
    \/ /\ response.status_code # 404
       /\ \/ ~Is2xx(response.status_code)
          \/ response.json = None
          \/ Get(response.json[1], "upload_url", "") = ""
          \/ Get(response.json[1], "gcs_uri", "") = ""

\* C9 (as specified): the render POST follows the negotiation; a 404 of the
\* grant call is logged as the fallback and raises nothing; every other
\* non-2xx answer, an invalid grant body or a failed transfer fails the job
\* with no POST to /render.
C9_NegotiationBeforeRender ==
    \A j \in JobIds :
        LET job == jobs[j]
        IN  /\ job.posts > 0 /\ job.pc # "done"
                 => /\ job.grant_response # None
                    /\ job.payload # None
                    /\ job.gcs_uri # None \/ job.blend_inline # None
            /\ job.grant_response # None =>
                 LET grant == job.grant_response[1]
                 IN  /\ (~Raised(grant) /\ grant.status_code = 404)
                          => /\ Logged(job, MsgFallback)
                             /\ job.upload_response = None
                             /\ job.exc # None => job.pc # "grant" /\ job.exc[1] # "Remote worker does not expose /upload-url (legacy deployment)"
                     /\ GrantHardFailure(grant)
                          => job.posts = 0 /\ job.exc # None /\ job.upload_response = None
            /\ (job.upload_response # None
                 /\ (Raised(job.upload_response[1])
                        \/ ~Is2xx(job.upload_response[1].status_code)))
                 => job.posts = 0 /\ job.exc # None

\* C10: /render resolves its input on one path.  With a non-empty
\* blend_gcs_uri it takes the blob path (parse, then fetch) and never decodes
\* blend_file; otherwise with a non-empty blend_file it decodes it and fetches
\* nothing; with neither it answers 400 "Missing blend file reference"
\* without fetching, decoding or running Blender; and Blender runs only after
\* exactly one of the two has been done.
C10_OneInputPath ==
    (served # None /\ served[1].endpoint = "/render") =>
      LET r == served[1]
          has_uri == TruthyText(r.request.blend_gcs_uri)
          has_file == TruthyText(r.request.blend_file)
      IN  /\ ~(r.fetched /\ r.decoded)
          /\ has_uri
               => /\ ~r.decoded
                  /\ r.fetched \/ r.response.status_code \in {400, 500}
                  /\ (r.response.status_code = 400 /\ ~r.fetched)
                       => r.response.detail = "Invalid GCS URI"
          /\ (~has_uri /\ has_file) => r.decoded /\ ~r.fetched
          /\ (~has_uri /\ ~has_file)
               => /\ r.response.status_code = 400
                  /\ r.response.detail = "Missing blend file reference"
                  /\ r.blender_runs = 0
                  /\ ~r.fetched /\ ~r.decoded
          /\ r.blender_runs = 1 => (r.fetched # r.decoded)

\* a request carrying both fields was served from the blob, and Blender ran
C10_Witness ==
    /\ served # None
    /\ served[1].endpoint = "/render"
    /\ TruthyText(served[1].request.blend_gcs_uri)
    /\ TruthyText(served[1].request.blend_file)
    /\ served[1].fetched
    /\ served[1].blender_runs = 1
    /\ served[1].response.status_code = 200

\* C11: whatever the exit of /render (success, 400 for a missing input or
\* an invalid URI, 502 or 500 for a failed download, 500 for a failed decode,
\* a failed render or a missing output), <tmp_dir>/scene.blend and tmp_dir
\* do not exist when the handler has returned.
C11_ServerTmpDirRemoved ==
    (served # None /\ served[1].endpoint = "/render") =>
      /\ served[1].tmp_dir = "deleted"
      /\ ~served[1].blend_exists
      /\ served[1].response.status_code \in {200, 400, 500, 502}

\* the inline text could not be decoded: open() had created scene.blend,
\* blend_path was never assigned, so only the rmtree removed the file
C11_Witness ==
    /\ served # None
    /\ served[1].endpoint = "/render"
    /\ served[1].decoded
    /\ served[1].blend_written
    /\ ~served[1].unlinked
    /\ served[1].response = InternalServerError
    /\ served[1].blender_runs = 0
    /\ served[1].tmp_dir = "deleted"

\* C12: when Blender exits with a non-zero code, /render answers 500 with
\* "Blender failed: " followed by the end of the captured output, at most
\* LogTail characters of it and all of it when it is shorter, and the log is
\* not scanned for an output path (even when it advertises an existing one).
C12_FailedRenderReturnsTail ==
    (served # None /\ served[1].endpoint = "/render" /\ served[1].blender # None
       /\ served[1].blender[1].returncode # 0) =>
      LET r == served[1]
          chars == r.blender[1].chars
      IN  /\ r.response.status_code = 500
          /\ DOMAIN r.response = {"status_code", "detail"}
          /\ r.response.detail.text = "Blender failed: "
          /\ r.response.detail.logs.to = chars
          /\ r.response.detail.logs.from >= 0
          /\ r.response.detail.logs.to - r.response.detail.logs.from <= 2000
          /\ chars <= 2000 => r.response.detail.logs.from = 0
          /\ ~r.scanned

\* Blender failed after printing more than 2000 characters, among them the
\* line advertising a frame that exists
C12_Witness ==
    /\ served # None
    /\ served[1].endpoint = "/render"
    /\ served[1].blender # None
    /\ served[1].blender[1].returncode # 0
    /\ served[1].blender[1].chars > 2000
    /\ served[1].blender[1].files # {}
    /\ served[1].response.status_code = 500

\* line i of a log is a JSON object with an output_path field
AdvertisesAt(lines, i) ==
    /\ lines[i].json # None
    /\ lines[i].json[1].type = "object"
    /\ "output_path" \in DOMAIN lines[i].json[1].value

Advertising(lines) == {i \in 1..Len(lines) : AdvertisesAt(lines, i)}

\* the path of the first line that advertises one
FirstAdvertised(lines) ==
    LET i == CHOOSE k \in Advertising(lines) : \A m \in Advertising(lines) : k <= m
    IN  lines[i].json[1].value.output_path

\* C13: Blender exiting with 0 is not enough.  When no line of the log
\* advertises an output_path, or the first advertised path is not on disk,
\* /render answers 500 and no image: with the detail "Render worker did not
\* produce output", or FastAPI's own 500 when the scan itself raised.  A
\* success response carries the first advertised path, and that file exists.
C13_ZeroExitNotSufficient ==
    (served # None /\ served[1].endpoint = "/render" /\ served[1].blender # None
       /\ served[1].blender[1].returncode = 0) =>
      LET r == served[1]
          lines == r.blender[1].lines
          files == r.blender[1].files
      IN  /\ (Advertising(lines) = {} \/ FirstAdvertised(lines) \notin files)
                => /\ r.response.status_code = 500
                   /\ "image_base64" \notin DOMAIN r.response
                   /\ \/ r.response.detail = "Render worker did not produce output"
                      \/ r.response = InternalServerError
          /\ r.response.status_code = 200
                => /\ Advertising(lines) # {}
                   /\ FirstAdvertised(lines) \in files
                   /\ r.response.output_path
                        = FirstAdvertised(lines).stem \o FirstAdvertised(lines).suffix

\* Blender exited with 0 and advertised two frames, of which only the second
\* exists: the answer is the missing-output 500
C13_Witness ==
    /\ served # None
    /\ served[1].endpoint = "/render"
    /\ served[1].blender # None
    /\ served[1].blender[1].returncode = 0
    /\ Cardinality(Advertising(served[1].blender[1].lines)) = 2
    /\ served[1].blender[1].files # {}
    /\ served[1].response = HTTPException(500, "Render worker did not produce output")

\* C14 (as specified): no line aborts the scan of a log.  Whatever the lines
\* are, the scan ends without raising, with the path of the first line that
\* is a JSON object with an output_path field, or with none when no line is.
C14_ScanNeverAborted ==
    (served # None /\ served[1].endpoint = "/render" /\ served[1].scanned) =>
      LET lines == served[1].blender[1].lines
          scan == ScanLogs(lines, 1)
      IN  /\ scan.raises = None
          /\ scan.output_path = IF Advertising(lines) = {} THEN None
                                ELSE Some(FirstAdvertised(lines))
          /\ served[1].response # InternalServerError

\* C15: when one line of the log is a JSON object with an output_path and
\* every other line is not JSON, the scan returns that line's path, however
\* many lines come before and after it and whatever their text; /render then
\* answers with that path when the file exists.
C15_NoiseDoesNotMatter ==
    (served # None /\ served[1].endpoint = "/render" /\ served[1].scanned) =>
      LET lines == served[1].blender[1].lines
      IN  (/\ Cardinality(Advertising(lines)) = 1
           /\ \A i \in (1..Len(lines)) \ Advertising(lines) : lines[i].json = None)
          => /\ ScanLogs(lines, 1)
                  = [raises |-> None, output_path |-> Some(FirstAdvertised(lines))]
             /\ FirstAdvertised(lines) \in served[1].blender[1].files
                  => /\ served[1].response.status_code = 200
                     /\ served[1].response.output_path
                          = FirstAdvertised(lines).stem \o FirstAdvertised(lines).suffix

\* two lines of text before the output line and two after it
C15_Witness ==
    /\ served # None
    /\ served[1].endpoint = "/render"
    /\ served[1].scanned
    /\ Len(served[1].blender[1].lines) = 5
    /\ Advertising(served[1].blender[1].lines) = {3}
    /\ served[1].blender[1].lines[1].json = None
    /\ served[1].blender[1].lines[5].json = None
    /\ served[1].response.status_code = 200

GrantEndpoints == {"/upload-url", "/upload"}

GrantServed == served # None /\ served[1].endpoint \in GrantEndpoints

\* C16: with no bucket configured, /upload-url and /upload answer 500 with
\* the unconfigured-bucket detail, having neither created the storage
\* client, nor resolved the signing identity, nor called the object store,
\* and the two lazily initialised globals are as they were; when the object
\* store rejects the signing request (a GoogleAPIError) the answer is 502.
C16_UnconfiguredBucketFailsFirst ==
    GrantServed =>
        /\ ~TruthyStr(GCS_BUCKET) =>
              /\ served[1].response = HTTPException(500, MsgUnconfigured)
              /\ ~served[1].constructed
              /\ served[1].lookups = << >>
              /\ ~served[1].signed
              /\ _storage_client = served[1].client_before
              /\ _service_account_email = served[1].email_before
        /\ served[1].raised = Some("GoogleAPIError") =>
              served[1].response.status_code = 502

\* the legacy alias served with no bucket while a storage client exists
C16_Witness ==
    /\ GrantServed
    /\ served[1].endpoint = "/upload"
    /\ GCS_BUCKET = Some("")
    /\ _storage_client # None

\* a grant refused by the object store
C16_Rejected == GrantServed /\ served[1].raised = Some("GoogleAPIError")


\* C17: when the callback of job j fires and the owner scene is gone, the
\* owner's registry entry is removed, no event leaves any queue and no status
\* changes, and the callback is not scheduled again, whatever the worker is
\* doing and whatever the queue holds.
C17_OrphanDroppedUndrained ==
    [][\A j \in JobIds :
          (~sceneExists[jobs[j].owner] /\ TimerFire(j)) =>
              /\ ACTIVE_RENDER_JOBS'[jobs[j].owner] = None
              /\ jobs' = jobs
              /\ status' = status
              /\ j \notin timers']_vars

\* the entry of a deleted scene was dropped while its worker was running and
\* its queue held events
C17_Witness ==
    \E j \in JobIds :
        /\ registered
        /\ ~sceneExists[jobs[j].owner]
        /\ ACTIVE_RENDER_JOBS[jobs[j].owner] = None
        /\ j \notin timers
        /\ jobs[j].queue # << >>
        /\ jobs[j].thread = "running"

\* C18 (as specified): unregister() deregisters every callback that is still
\* scheduled, so once the add-on is disabled no periodic callback remains that
\* could fire.
C18_NoCallbackAfterShutdown == ~registered => timers = {}

\* the step takes the job of owner s out of the registry: the entry is popped,
\* or holds another job
EntryRemoved(s) ==
    /\ Entry(s) # None
    /\ \/ Entry(s)' = None
       \/ Entry(s)'[1].job # Entry(s)[1].job

\* C19: with the owner present and the add-on enabled, a step that takes a
\* job out of the registry (the Poller popping the entry, or an accepted
\* submission putting another job in its place) leaves that job with its
\* result applied (done) and its queue empty: nothing is pending for it.
C19_RemovedOnlyWhenDrained ==
    [][\A s \in Scenes :
          (sceneExists[s] /\ registered' /\ EntryRemoved(s)) =>
              LET j == Entry(s)[1].job
              IN  /\ jobs'[j].queue = << >>
                  /\ ResultsOf(jobs'[j].sent) # << >>
                  /\ ~status'[s].is_rendering
                  /\ status'[s].finish_timestamp # 0]_vars

\* the entry of a finished job was popped while a second job of the same
\* owner has not been submitted yet
C19_Witness ==
    /\ Entry("scene_a") = None
    /\ ThreadsOf("scene_a") # {}
    /\ jobs[LatestJob("scene_a")].queue = << >>
    /\ ResultsOf(jobs[LatestJob("scene_a")].sent) # << >>
    /\ Terminal("scene_a")

\* the callback of job j, fired in this step, finds the job of its owner with
\* the result applied and nothing queued
ResultObserved(s) ==
    /\ Entry(s) # None
    /\ ResultsOf(jobs'[Entry(s)[1].job].sent) # << >>
    /\ jobs'[Entry(s)[1].job].queue = << >>
    /\ ~status'[s].is_rendering

\* C20: a firing of the callback of job j ends its schedule exactly when the
\* owner scene is gone, or the registry holds nothing for the owner, or the
\* result of the owner's job has been applied and its queue is empty; in
\* every other case the callback stays scheduled (0.5 s).  Hence a job that
\* the registry holds always has its callback scheduled.
C20_StopsOnlyWhenFinished ==
    [][/\ \A j \in JobIds :
            TimerFire(j) =>
                (j \notin timers' <=>
                    \/ ~sceneExists[jobs[j].owner]
                    \/ Entry(jobs[j].owner) = None
                    \/ ResultObserved(jobs[j].owner))
       /\ \A j \in JobIds : Registered(j) => j \in timers
       /\ \A j \in 1..Len(jobs') : Registered(j)' => j \in timers']_vars

\* the callback of a finished job has stopped, and the callback of the job
\* submitted after it is still scheduled although the queue is drained and
\* the worker has not queued its result
C20_Witness ==
    \E j, k \in JobIds :
        /\ jobs[j].owner = jobs[k].owner
        /\ j \notin timers
        /\ ResultsOf(jobs[j].sent) # << >>
        /\ jobs[j].queue = << >>
        /\ Registered(k)
        /\ k \in timers
        /\ jobs[k].queue = << >>
        /\ Len(jobs[k].sent) > 0
        /\ ResultsOf(jobs[k].sent) = << >>

\* job j has a worker thread
Accepted(j) == j \in JobIds /\ jobs[j].thread # "none"

\* job j is over for its owner: the result is applied, the entry and the
\* callback are gone, and execute() would not answer "already running"
Finished(j) ==
    /\ j \in JobIds
    /\ ~status[jobs[j].owner].is_rendering
    /\ status[jobs[j].owner].finish_timestamp # 0
    /\ Entry(jobs[j].owner) = None
    /\ j \notin timers
    /\ jobs[j].queue = << >>

\* C21: with the worker thread and the timer callback running on, every
\* accepted job leads to the state where is_rendering is unset with a finish
\* timestamp, the registry entry is removed, the callback is no longer
\* scheduled and a submission for the owner is no longer refused as already
\* running; and a scheduled callback can always run to its end, whatever the
\* queue holds.
C21_AcceptedJobTerminates ==
    /\ \A j \in 1..MaxRuns : Accepted(j) ~> Finished(j)
    /\ [](\A j \in 1..MaxRuns :
            (j \in JobIds /\ j \in timers) => ENABLED TimerFire(j))

\* a failed job that is over
C21_Witness ==
    \E j \in JobIds :
        /\ Accepted(j)
        /\ Finished(j)
        /\ status[jobs[j].owner].last_error # ""
        /\ jobs[j].thread = "finished"

\* the result of job j has been applied and says `outcome`
Ended(j, outcome) ==
    /\ ResultsOf(jobs[j].sent) # << >>
    /\ ResultsOf(jobs[j].queue) = << >>
    /\ ResultsOf(jobs[j].sent)[1][3].status = outcome

LatestIs(s, outcome) == ThreadsOf(s) # {} /\ Ended(LatestJob(s), outcome)

\* C22 (as specified): after any submissions, accepted or rejected, and any
\* polls, last_error is non-empty only if the owner's latest job has failed,
\* last_output_path is non-empty only if it has succeeded, and the two are
\* never non-empty together.
C22_ErrorXorOutput ==
    \A s \in Scenes :
        sceneExists[s] =>
            /\ status[s].last_error # "" => LatestIs(s, "error")
            /\ status[s].last_output_path # "" => LatestIs(s, "success")
            /\ ~(status[s].last_error # "" /\ status[s].last_output_path # "")

\* the part of C22 that needs no reading of "latest job"
C22_BothSet ==
    \E s \in Scenes : status[s].last_error # "" /\ status[s].last_output_path # ""

\* the step takes a result event off the queue of the job registered for s
ResultTaken(s) ==
    /\ Entry(s) # None
    /\ ResultsOf(jobs[Entry(s)[1].job].queue) # << >>
    /\ jobs'[Entry(s)[1].job].queue = << >>

\* the step accepts a submission of owner s
SubmissionAccepted(s) ==
    /\ Len(jobs') = Len(jobs) + 1
    /\ jobs'[Len(jobs')].owner = s
    /\ jobs'[Len(jobs')].thread # "none"

\* C23: while is_rendering is set the finish timestamp is 0; the finish
\* timestamp is set only by the step of the Poller that takes the result
\* event and clears is_rendering, to the timestamp of that event; an
\* accepted submission sets it back to 0.
C23_FinishUnsetWhileRendering ==
    [][\A s \in Scenes :
          /\ status[s].is_rendering => status[s].finish_timestamp = 0
          /\ status'[s].is_rendering => status'[s].finish_timestamp = 0
          /\ (status'[s].finish_timestamp # status[s].finish_timestamp
                  /\ status'[s].finish_timestamp # 0) =>
                /\ ResultTaken(s)
                /\ status[s].is_rendering
                /\ ~status'[s].is_rendering
                /\ status'[s].finish_timestamp
                       = ResultsOf(jobs[Entry(s)[1].job].queue)[1][2]
          /\ SubmissionAccepted(s) => status'[s].finish_timestamp = 0]_vars

\* a second job of an owner is rendering: the finish timestamp of the first
\* was set and is 0 again
C23_Witness ==
    \E s \in Scenes :
        /\ status[s].is_rendering
        /\ status[s].finish_timestamp = 0
        /\ \E j \in ThreadsOf(s) : j # LatestJob(s) /\ Ended(j, "success")

\* the request just served ran the resolution of the signing identity
Resolved == GrantServed /\ served[1].lookups # << >>

\* C24 (as specified): over any sequence of requests the storage client, once
\* constructed, is the one every later request uses, and the resolution of
\* the signing identity, once it has run, is not run again by the request
\* that follows, whatever its result was (no explicit identity included).
C24_LazyClientsInitialisedOnce ==
    [][/\ _storage_client # None => _storage_client' = _storage_client
       /\ (Resolved /\ GrantServed') => served'[1].lookups = << >>]_vars

\* the storage client is never constructed twice
C24_ClientOnce == [][_storage_client # None => _storage_client' = _storage_client]_vars

\* an identity that was found is never looked up again
C24_FoundIdentityKept ==
    [][TruthyStr(_service_account_email) =>
          /\ _service_account_email' = _service_account_email
          /\ GrantServed' => served'[1].lookups = << >>]_vars

\* C25: the frame, the settings and the device of the request body are the
\* values the scene had in the state in which the submission was accepted;
\* no later step, an edit of the scene included, changes what the job
\* carries, and the body the worker builds has exactly these values.
C25_BodyIsSnapshot ==
    [][/\ \A s \in Scenes :
            SubmissionAccepted(s) =>
                LET base == jobs'[Len(jobs')].base_payload
                IN  /\ base.frame = sceneProps[s].frame_current
                    /\ base.render_settings = [samples |-> sceneProps[s].samples]
                    /\ base.device = sceneProps[s].device
       /\ \A j \in JobIds :
            /\ jobs'[j].base_payload = jobs[j].base_payload
            /\ jobs'[j].payload # None =>
                  jobs'[j].payload[1].base = jobs[j].base_payload]_vars

\* a request body differs from the scene as it is now in frame, settings
\* and device: all three were edited after the submission
C25_Witness ==
    \E j \in JobIds :
        /\ jobs[j].payload # None
        /\ jobs[j].payload[1].base.frame # sceneProps[jobs[j].owner].frame_current
        /\ jobs[j].payload[1].base.device # sceneProps[jobs[j].owner].device
        /\ jobs[j].payload[1].base.render_settings.samples
               # sceneProps[jobs[j].owner].samples

\* the thread of job j moves in this step
WorkerMoves(j) == jobs'[j].pc # jobs[j].pc \/ jobs'[j].put_count # jobs[j].put_count

\* the step drains the queue of the job registered for s, and no other
\* queue, into the status of s
PolledOwn(s) ==
    /\ Entry(s) # None
    /\ LET j == Entry(s)[1].job
       IN  /\ jobs[j].owner = s
           /\ jobs[j].queue # << >>
           /\ jobs' = [jobs EXCEPT ![j].queue = << >>]
           /\ status'[s] = Drain(status[s], Entry(s)[1].done, jobs[j].queue).status

\* C26: a step of a worker thread changes no status and not the registry;
\* the status of an owner changes only in a step of execute() run on that
\* owner, or in a step that drains the queue of the job the registry holds
\* for that owner, a job of that owner, into it.
C26_OnlyTheChannel ==
    [][/\ \A j \in JobIds :
            WorkerMoves(j) =>
                status' = status /\ ACTIVE_RENDER_JOBS' = ACTIVE_RENDER_JOBS
       /\ \A s \in Scenes :
            status'[s] # status[s] => Execute(s, EnvOwners) \/ PolledOwn(s)]_vars

\* two owners rendering at once, each with events applied to its status
C26_Witness ==
    /\ \A s \in Scenes : ActiveJob(s) /\ Len(status[s].log_entries) > 1
    /\ status["scene_a"].log_entries # status["scene_b"].log_entries

\* C27: a worker thread puts at most one result event, nothing after it, and
\* has put exactly one when it ends, whether the render succeeded or any step
\* failed.
C27_OneResultLast ==
    \A j \in JobIds :
        jobs[j].thread # "none" =>
            /\ Len(ResultsOf(jobs[j].sent)) <= 1
            /\ ResultsOf(jobs[j].sent) # << >> => IsResult(jobs[j].sent[Len(jobs[j].sent)])
            /\ jobs[j].thread = "finished" => Len(ResultsOf(jobs[j].sent)) = 1

\* a thread that ended after a successful render
C27_Witness ==
    \E j \in JobIds :
        /\ jobs[j].thread = "finished"
        /\ Len(jobs[j].sent) > 1
        /\ jobs[j].sent[Len(jobs[j].sent)][3].status = "success"

\* C28: between the steps of the main thread, with no teardown, the status
\* of an existing owner has is_rendering set exactly when the registry holds
\* an entry for the owner whose done mark is unset; an entry with the mark
\* set is never left behind.
C28_FlagMatchesRegistry ==
    \A s \in Scenes :
        sceneExists[s] =>
            /\ status[s].is_rendering <=> ActiveJob(s)
            /\ Entry(s) # None => ~Entry(s)[1].done

\* the second job of an owner is rendering after its first job failed and
\* was taken out of the registry
C28_Witness ==
    /\ ActiveJob("scene_a")
    /\ status["scene_a"].is_rendering
    /\ \E j \in ThreadsOf("scene_a") : j # LatestJob("scene_a") /\ Ended(j, "error")

\* the callbacks scheduled for owner s
TimersOf(s) == {j \in timers : jobs[j].owner = s}

\* C29 (as specified): whatever the interleaving of submissions, worker
\* steps, timer firings and popup polls, an owner has at most one callback
\* scheduled: the callback of an earlier job is gone once a later job of the
\* owner has scheduled its own.
C29_OneCallbackPerOwner == \A s \in Scenes : Cardinality(TimersOf(s)) <= 1

====
